---- MODULE Spec2Model ----
(***************************************************************************)
(* Verification model of the batch tools of BigDataDocAutoShell:           *)
(*   - the batch rename resolver   (normalize_filenames.py),               *)
(*   - the tabular stores          (src/data_storage.py, src/qa_generator.py, *)
(*                                  deduplicate.py),                       *)
(*   - the pooled upload run       (upload_files.py).                      *)
(* Each part has its own specification over its own variables; the         *)
(* variables of the other parts stay at their initial values.              *)
(***************************************************************************)
EXTENDS Integers, Sequences, FiniteSets, TLC

VARIABLES
    \* ---- normalize_filenames.py ----
    dirFiles,        \* names of the files of the category directory
    files_list,      \* the batch handed to check_and_resolve_duplicates
    resolved_names,  \* its result: file of the batch -> resolved name
    resolved_again,  \* the result of a second call with the same arguments
    npc,             \* position of FilenameNormalizer.process_files
    \* ---- src/data_storage.py, src/qa_generator.py, deduplicate.py ----
    sheet,           \* store -> the data rows of its persisted YS sheet, in row order
    file_locks,      \* DataStorage._file_locks: the doc types that have a lock
    holder,          \* store -> the thread inside "with <lock of the store>", or 0
    spc,             \* thread -> position in save_data / save_qa_pairs
    call,            \* thread -> the arguments of its current call
    wb,              \* thread -> the rows of the workbook it loaded
    ret,             \* thread -> the value its call is about to return
    started,         \* number of save calls started so far
    idLog,           \* history: store -> identities given by successful appends
    deleted,         \* history: store -> a row deletion has changed the store
    \* ---- upload_files.py ----
    upc,             \* position of FileUploader.run
    local,           \* the files present in the upload directory
    files,           \* the files scan_files returned, i.e. the units submitted
    ustate,          \* unit -> state of its future and of its worker
    attempt,         \* unit -> loop variable of upload_file_with_retry
    error_msg,       \* unit -> error_msg of upload_file_with_retry
    last,            \* unit -> what its latest upload request met
    result,          \* unit -> the result of its future
    stats,           \* FileUploader.stats
    calls,           \* history: unit -> number of upload_file calls
    nSuccess,        \* history: unit -> number of upload_file calls that succeeded
    startCount,      \* history: unit -> times the pool started its worker
    drained,         \* history: unit -> times the collector handled its future
    \* ---- src/data_storage.py: the lock registry ----
    registry,        \* DataStorage._file_locks: doc type -> its lock, 0 when absent
    locks_lock,      \* the thread inside "with cls._locks_lock", or 0
    lock_objs,       \* the threading.Lock objects created: [key, owner]
    rpc,             \* thread -> position in save_data / _get_file_lock
    rkey,            \* thread -> doc_type of its call
    rgot,            \* thread -> the lock _get_file_lock returned to it, or 0
    returned,        \* history: doc type -> the locks ever returned for it
    rcalls,          \* number of calls started so far
    \* ---- deduplicate.py, normalize_filenames.py: one row operation ----
    ws_before,       \* the YS sheet (header and data rows) the operation loads
    ws_after,        \* the YS sheet as the operation leaves it in the file
    op,              \* the operation that was called, and its argument
    op_ret,          \* the value the operation returned
    \* ---- deduplicate.py: process_duplicates ----
    duplicates,      \* the list of (keep_file, delete_files)
    dpc,             \* position of process_duplicates
    gi,              \* index of the group of the outer loop
    di,              \* index of delete_file in the inner loop
    policy_ids_to_delete,
    dstats,          \* Deduplicator.stats
    dfiles,          \* the files present in the category directories
    removed_ids,     \* history: ID of the policy rows removed in this run
    faulted,         \* history: a store operation of this run raised
    \* ---- normalize_filenames.py: run, process_files steps 2 and 3 ----
    response,        \* the text typed at the confirmation prompt
    rename_results,  \* the (old stem, new stem) of the renames that succeeded
    completed,       \* the files whose rename future has completed
    nstats,          \* FilenameNormalizer.stats
    update_raised,   \* history: batch_update_excel_filenames raised
    \* ---- the retry loops: classify, extract, generate_qa_pairs, upload_file_with_retry ----
    xn,              \* the configured retry value (MAX_RETRIES, UPLOAD_MAX_RETRIES)
    xpc,             \* wrapper -> position: loop, sleep, returned, raised
    xattempt,        \* wrapper -> the loop variable attempt
    xtrace,          \* wrapper -> history: the calls of the operation and the sleeps
    xvalue,          \* wrapper -> what the wrapper returned
    \* ---- main.py, generate_qa.py, upload_files.py: the start of a program ----
    prog,            \* the program that is started
    cfg,             \* the settings read from the environment
    env,             \* what the program finds on the machine
    ppc,             \* position of the program: start, validated, ready, working, exited
    exit_status,     \* the exit status of the process, -1 while it runs
    work_started,    \* a work unit has been started
    \* ---- src/data_storage.py: the YS sheet of one category store ----
    book_store,      \* doc type of the store
    book_template,   \* the template file of the doc type exists
    book_exists,     \* the output file exists
    book,            \* the rows of the YS sheet of the output file, from row 1
    book_prev,       \* the rows the latest save_data call found
    book_ret,        \* what the latest save_data call returned
    book_saves,      \* number of save_data calls so far
    \* ---- deduplicate.py: scan_files and find_duplicates ----
    scan_hash,       \* file on disk at the start of the run -> its content hash
    scan_mtime,      \* file on disk at the start of the run -> its st_mtime
    scan_order,      \* the files in the order scan_files meets them
    had_row,         \* history: the files that have a row in their category store at the start
    \* ---- main.py: process_file for the scanned files, one after the other ----
    pcur,            \* index of the file the processing thread is at
    pstage,          \* the step of process_file the thread is about to make
    punits,          \* file -> its stem, doc_type, result, steps made, stores before and after
    \* ---- upload_files.py, generate_qa.py: the lock of the run statistics ----
    stats_lock,      \* the thread inside "with stats_lock", or 0
    stpc,            \* thread -> its position at a statistics update
    supdates         \* statistics updates started

normVars == <<dirFiles, files_list, resolved_names, resolved_again, npc>>

storeVars == <<sheet, file_locks, holder, spc, call, wb, ret, started, idLog, deleted>>

uploadVars == <<upc, local, files, ustate, attempt, error_msg, last, result,
                stats, calls, nSuccess, startCount, drained>>

registryVars == <<registry, locks_lock, lock_objs, rpc, rkey, rgot, returned, rcalls>>

rowsVars == <<ws_before, ws_after, op, op_ret>>

dedupVars == <<duplicates, dpc, gi, di, policy_ids_to_delete, dstats, dfiles,
               removed_ids, faulted>>

syncVars == <<response, rename_results, completed, nstats, update_raised>>

retryVars == <<xn, xpc, xattempt, xtrace, xvalue>>

startupVars == <<prog, cfg, env, ppc, exit_status, work_started>>

bookVars == <<book_store, book_template, book_exists, book, book_prev, book_ret, book_saves>>

scanVars == <<scan_hash, scan_mtime, scan_order, had_row>>

pipeVars == <<pcur, pstage, punits>>

statVars == <<stats_lock, stpc, supdates>>

vars == <<dirFiles, files_list, resolved_names, resolved_again, npc,
          sheet, file_locks, holder, spc, call, wb, ret, started, idLog, deleted,
          upc, local, files, ustate, attempt, error_msg, last, result,
          stats, calls, nSuccess, startCount, drained,
          registry, locks_lock, lock_objs, rpc, rkey, rgot, returned, rcalls,
          ws_before, ws_after, op, op_ret,
          duplicates, dpc, gi, di, policy_ids_to_delete, dstats, dfiles,
          removed_ids, faulted,
          response, rename_results, completed, nstats, update_raised,
          xn, xpc, xattempt, xtrace, xvalue,
          prog, cfg, env, ppc, exit_status, work_started,
          book_store, book_template, book_exists, book, book_prev, book_ret, book_saves,
          scan_hash, scan_mtime, scan_order, had_row,
          pcur, pstage, punits,
          stats_lock, stpc, supdates>>

\* what the actions of one tool leave alone: the variables of the other tools
nonNormVars == <<storeVars, uploadVars, registryVars, rowsVars, dedupVars, syncVars, retryVars, startupVars, bookVars, scanVars, pipeVars, statVars>>
nonStoreVars == <<normVars, uploadVars, registryVars, rowsVars, dedupVars, syncVars, retryVars, startupVars, bookVars, scanVars, pipeVars, statVars>>
nonUploadVars == <<normVars, storeVars, registryVars, rowsVars, dedupVars, syncVars, retryVars, startupVars, bookVars, scanVars, pipeVars, statVars>>
nonRegistryVars == <<normVars, storeVars, uploadVars, rowsVars, dedupVars, syncVars, retryVars, startupVars, bookVars, scanVars, pipeVars, statVars>>
nonRowsVars == <<normVars, storeVars, uploadVars, registryVars, dedupVars, syncVars, retryVars, startupVars, bookVars, scanVars, pipeVars, statVars>>
\* deduplicate.py rewrites the stores; it takes no lock and starts no thread
nonDedupVars == <<normVars, uploadVars, registryVars, rowsVars,
                  file_locks, holder, spc, call, wb, ret, started, idLog, deleted, syncVars, retryVars, startupVars, bookVars, scanVars, pipeVars, statVars>>

----------------------------------------------------------------------------
(* Bounds *)

MaxFiles == 3        \* files in the category directory
NumThreads == 2      \* threads that call save_data / save_qa_pairs
MaxAppends == 2      \* save calls started in one run
MaxPairs == 2        \* question-answer pairs handed to one save_qa_pairs call
MaxUnits == 2        \* files in the upload directory
MaxWorkers == 2      \* UPLOAD_MAX_WORKERS
MaxRetries == 1      \* UPLOAD_MAX_RETRIES
MaxCalls == 3        \* save_data calls started in one run of the lock registry
MaxRows == 3         \* data rows of the sheet a row operation is applied to
MaxDeletes == 2      \* files process_duplicates is told to delete in one run
MaxConfigured == 3   \* largest retry value a run is configured with

----------------------------------------------------------------------------
(* The sets the model ranges over, and the state of each tool while it is  *)
(* not running.                                                            *)

\* TEMPLATE_MAPPING: two of the category stores and the question-answer store
DocTypes == {"doc", "policy"}
QAStore == "qa"
Stores == DocTypes \cup {QAStore}

\* the policy identities (ID of a row of the policy store) the
\* question-answer rows refer to
PolicyIds == {1, 2}

\* PolicyFileName values (file names without extension), character by
\* character: "report_a", "report_b", "report_c"
ReportA == <<"r", "e", "p", "o", "r", "t", "_", "a">>

ReportB == <<"r", "e", "p", "o", "r", "t", "_", "b">>

ReportC == <<"r", "e", "p", "o", "r", "t", "_", "c">>

\* the stems the rows of the stores carry: information_extractor sets
\* PolicyFileName to the stem of the file and clean_data strips it
FileStems == {ReportA, ReportB}

Threads == 1..NumThreads

Units == 1..MaxUnits

NoResponse == [kind |-> "none", status |-> 0, body |-> "none", code |-> 0]

\* the state of the normalizer while another tool runs
IdleNorm ==
    /\ dirFiles = {}
    /\ files_list = <<>>
    /\ resolved_names = <<>>
    /\ resolved_again = <<>>
    /\ npc = "idle"

NoCall == [store |-> "none"]

IdleStore ==
    /\ sheet = [s \in Stores |-> <<>>]
    /\ file_locks = {}
    /\ holder = [s \in Stores |-> 0]
    /\ spc = [t \in Threads |-> "idle"]
    /\ call = [t \in Threads |-> NoCall]
    /\ wb = [t \in Threads |-> <<>>]
    /\ ret = [t \in Threads |-> "none"]
    /\ started = 0
    /\ idLog = [s \in Stores |-> <<>>]
    /\ deleted = [s \in Stores |-> FALSE]

IdleUpload ==
    /\ upc = "idle"
    /\ local = {}
    /\ files = {}
    /\ ustate = [u \in Units |-> "none"]
    /\ attempt = [u \in Units |-> 0]
    /\ error_msg = [u \in Units |-> ""]
    /\ last = [u \in Units |-> NoResponse]
    /\ result = [u \in Units |-> "none"]
    /\ stats = [total |-> 0, success |-> 0, failed |-> 0, failed_files |-> <<>>]
    /\ calls = [u \in Units |-> 0]
    /\ nSuccess = [u \in Units |-> 0]
    /\ startCount = [u \in Units |-> 0]
    /\ drained = [u \in Units |-> 0]

IdleRegistry ==
    /\ registry = [d \in DocTypes |-> 0]
    /\ locks_lock = 0
    /\ lock_objs = <<>>
    /\ rpc = [t \in Threads |-> "idle"]
    /\ rkey = [t \in Threads |-> "none"]
    /\ rgot = [t \in Threads |-> 0]
    /\ returned = [d \in DocTypes |-> {}]
    /\ rcalls = 0

NoOp == [name |-> "none"]

IdleRows ==
    /\ ws_before = <<>>
    /\ ws_after = <<>>
    /\ op = NoOp
    /\ op_ret = 0

IdleDedup ==
    /\ duplicates = <<>>
    /\ dpc = "idle"
    /\ gi = 0
    /\ di = 0
    /\ policy_ids_to_delete = {}
    /\ dstats = [files_deleted |-> 0, excel_rows_deleted |-> 0, qa_rows_deleted |-> 0]
    /\ dfiles = {}
    /\ removed_ids = {}
    /\ faulted = FALSE

IdleSync ==
    /\ response = <<>>
    /\ rename_results = <<>>
    /\ completed = {}
    /\ nstats = [files_renamed |-> 0, excel_rows_updated |-> 0, errors |-> 0]
    /\ update_raised = FALSE

\* the retry wrappers
CompletionWrappers == {"classify", "extract", "generate_qa_pairs"}

Wrappers == CompletionWrappers \cup {"upload_file_with_retry"}

IdleRetry ==
    /\ xn = 0
    /\ xpc = [w \in Wrappers |-> "idle"]
    /\ xattempt = [w \in Wrappers |-> 0]
    /\ xtrace = [w \in Wrappers |-> <<>>]
    /\ xvalue = [w \in Wrappers |-> "none"]

IdleStartup ==
    /\ prog = "none"
    /\ cfg = <<>>
    /\ env = <<>>
    /\ ppc = "idle"
    /\ exit_status = -1
    /\ work_started = FALSE

IdleBook ==
    /\ book_store = "none"
    /\ book_template = FALSE
    /\ book_exists = FALSE
    /\ book = <<>>
    /\ book_prev = <<>>
    /\ book_ret = "none"
    /\ book_saves = 0

IdleScan ==
    /\ scan_hash = <<>>
    /\ scan_mtime = <<>>
    /\ scan_order = <<>>
    /\ had_row = {}

IdlePipe ==
    /\ pcur = 0
    /\ pstage = "none"
    /\ punits = <<>>

IdleStat ==
    /\ stats_lock = 0
    /\ stpc = <<>>
    /\ supdates = 0

----------------------------------------------------------------------------
(* File names.  A name is [stem, ext] as pathlib splits it (Path.stem,     *)
(* Path.suffix); the stem is a sequence of characters.                     *)

\* the fullwidth parentheses U+FF08 / U+FF09 are written "FW(" and "FW)"
Whitespace == {" ", "\t"}

Digit == <<"1", "2", "3", "4", "5", "6", "7", "8", "9">>

CodePoint(c) ==
    CASE c = "\t" -> 9   [] c = " " -> 32  [] c = "(" -> 40  [] c = ")" -> 41
      [] c = "." -> 46   [] c = "0" -> 48  [] c = "1" -> 49  [] c = "2" -> 50
      [] c = "3" -> 51   [] c = "4" -> 52  [] c = "5" -> 53  [] c = "6" -> 54
      [] c = "7" -> 55   [] c = "8" -> 56  [] c = "9" -> 57  [] c = "_" -> 95
      [] c = "a" -> 97   [] c = "b" -> 98  [] c = "c" -> 99  [] c = "d" -> 100
      [] c = "f" -> 102  [] c = "o" -> 111 [] c = "p" -> 112 [] c = "t" -> 116
      [] c = "x" -> 120  [] c = "FW(" -> 65288 [] c = "FW)" -> 65289

DOC_EXTENSIONS == {<<".", "d", "o", "c", "x">>, <<".", "p", "d", "f">>}

Name(stem, ext) == [stem |-> stem, ext |-> ext]

\* the string a name stands for: stem followed by suffix
FullName(f) == f.stem \o f.ext

\* str(n) for n >= 0
RECURSIVE Str(_)
Str(n) ==
    IF n < 10
    THEN <<IF n = 0 THEN "0" ELSE Digit[n]>>
    ELSE Str(n \div 10) \o <<IF n % 10 = 0 THEN "0" ELSE Digit[n % 10]>>

\* the value of a decimal digit, -1 for any other character
DigitValue(c) ==
    CASE c = "0" -> 0 [] c = "1" -> 1 [] c = "2" -> 2 [] c = "3" -> 3
      [] c = "4" -> 4 [] c = "5" -> 5 [] c = "6" -> 6 [] c = "7" -> 7
      [] c = "8" -> 8 [] c = "9" -> 9 [] OTHER -> -1

\* int(s) for a str of decimal digits; -1 stands for the ValueError int
\* raises on any other text
RECURSIVE ParseInt(_)
ParseInt(s) ==
    IF s = <<>> THEN -1
    ELSE IF DigitValue(s[Len(s)]) = -1 THEN -1
    ELSE IF Len(s) = 1 THEN DigitValue(s[1])
    ELSE LET high == ParseInt(SubSeq(s, 1, Len(s) - 1))
         IN  IF high = -1 THEN -1 ELSE 10 * high + DigitValue(s[Len(s)])

\* Python's str comparison a < b (by code point, a proper prefix is smaller)
RECURSIVE StrLess(_, _)
StrLess(a, b) ==
    IF b = <<>> THEN FALSE
    ELSE IF a = <<>> THEN TRUE
    ELSE IF Head(a) = Head(b) THEN StrLess(Tail(a), Tail(b))
    ELSE CodePoint(Head(a)) < CodePoint(Head(b))

\* re.sub(r'\s+', '_', stem): every maximal run of whitespace becomes one "_"
RECURSIVE SubWhitespace(_, _)
SubWhitespace(s, inRun) ==
    IF s = <<>> THEN <<>>
    ELSE IF Head(s) \in Whitespace
         THEN (IF inRun THEN <<>> ELSE <<"_">>) \o SubWhitespace(Tail(s), TRUE)
         ELSE <<Head(s)>> \o SubWhitespace(Tail(s), FALSE)

\* .replace('(', fullwidth).replace(')', fullwidth)
ReplaceParens(s) ==
    [i \in 1..Len(s) |->
        IF s[i] = "(" THEN "FW(" ELSE IF s[i] = ")" THEN "FW)" ELSE s[i]]

normalize_filename(f) == Name(ReplaceParens(SubWhitespace(f.stem, FALSE)), f.ext)

\* mutant of needs_normalization: only white space is looked for
needs_normalization_space_only(f) ==
    \E i \in 1..Len(f.stem) : f.stem[i] \in Whitespace

needs_normalization(f) ==
    \/ \E i \in 1..Len(f.stem) : f.stem[i] \in Whitespace
    \/ \E i \in 1..Len(f.stem) : f.stem[i] \in {"(", ")"}

IsDocFile(f) == f.ext \in DOC_EXTENSIONS

----------------------------------------------------------------------------
(* check_and_resolve_duplicates *)

\* f"{base_name}_{counter}{suffix}"
Candidate(new_filename, counter) ==
    Name(new_filename.stem \o <<"_">> \o Str(counter), new_filename.ext)

\* mutant of SuffixSearch: the candidate is checked against the directory only
RECURSIVE SuffixSearchDirOnly(_, _, _, _)
SuffixSearchDirOnly(new_filename, counter, existing_files, used_names) ==
    IF Candidate(new_filename, counter) \in existing_files
    THEN SuffixSearchDirOnly(new_filename, counter + 1, existing_files, used_names)
    ELSE counter

\* mutant of SuffixSearch: the first candidate is passed over
RECURSIVE SuffixSearchFromTwo(_, _, _, _)
SuffixSearchFromTwo(new_filename, counter, existing_files, used_names) ==
    IF \/ counter = 1
       \/ Candidate(new_filename, counter) \in existing_files
       \/ Candidate(new_filename, counter) \in used_names
    THEN SuffixSearchFromTwo(new_filename, counter + 1, existing_files, used_names)
    ELSE counter

\* while candidate_name in existing_files or candidate_name in used_names:
\*     counter += 1
\* the value of counter when the loop ends
RECURSIVE SuffixSearch(_, _, _, _)
SuffixSearch(new_filename, counter, existing_files, used_names) ==
    IF \/ Candidate(new_filename, counter) \in existing_files
       \/ Candidate(new_filename, counter) \in used_names
    THEN SuffixSearch(new_filename, counter + 1, existing_files, used_names)
    ELSE counter

\* mutant of InsertSorted: an item is put before the items of equal name
RECURSIVE InsertSortedBeforeEqual(_, _)
InsertSortedBeforeEqual(sorted, item) ==
    IF sorted = <<>> THEN <<item>>
    ELSE IF ~StrLess(FullName(sorted[Len(sorted)][1]), FullName(item[1]))
         THEN InsertSortedBeforeEqual(SubSeq(sorted, 1, Len(sorted) - 1), item)
                  \o <<sorted[Len(sorted)]>>
         ELSE sorted \o <<item>>

\* list.sort(key=lambda x: x[0]): stable insertion by the normalized name
RECURSIVE InsertSorted(_, _)
InsertSorted(sorted, item) ==
    IF sorted = <<>> THEN <<item>>
    ELSE IF StrLess(FullName(item[1]), FullName(sorted[Len(sorted)][1]))
         THEN InsertSorted(SubSeq(sorted, 1, Len(sorted) - 1), item)
                  \o <<sorted[Len(sorted)]>>
         ELSE sorted \o <<item>>

RECURSIVE SortByName(_)
SortByName(list) ==
    IF list = <<>> THEN <<>>
    ELSE InsertSorted(SortByName(SubSeq(list, 1, Len(list) - 1)), list[Len(list)])

\* file_info_list: (new_filename, file_path) for every file of the batch, sorted
FileInfoList(batch) ==
    SortByName([i \in 1..Len(batch) |-> <<normalize_filename(batch[i]), batch[i]>>])

\* mutant of ExistingFiles: the names an earlier call resolved are kept
ExistingFilesAndResolved(batch, dir) ==
    {g \in dir : IsDocFile(g) /\ g \notin {batch[i] : i \in 1..Len(batch)}}
        \cup { resolved_names[f] : f \in DOMAIN resolved_names }

\* mutant of ExistingFiles: the resolver does not look at the directory
NoExistingFiles(batch, dir) == {}

\* existing_files: the document files of the directory that are not in the batch
ExistingFiles(batch, dir) ==
    {g \in dir : IsDocFile(g) /\ g \notin {batch[i] : i \in 1..Len(batch)}}

\* duplicate_count: length of the run of equal names that starts at i
RECURSIVE DuplicateCount(_, _)
DuplicateCount(list, i) ==
    IF i < Len(list) /\ list[i + 1][1] = list[i][1]
    THEN 1 + DuplicateCount(list, i + 1)
    ELSE 1

\* the loop over duplicate_files (k > 1), from position j to position stop;
\* the result is <<resolved_names, used_names>>
RECURSIVE ResolveRun(_, _, _, _, _, _, _)
ResolveRun(list, j, stop, counter, existing_files, resolved, used) ==
    IF j > stop THEN <<resolved, used>>
    ELSE
      LET new_filename == list[j][1]
          file_path    == list[j][2]
      IN  IF counter = 0 /\ new_filename \notin used
          THEN ResolveRun(list, j + 1, stop, 1, existing_files,
                          (file_path :> new_filename) @@ resolved,
                          used \cup {new_filename})
          ELSE
            LET c == SuffixSearch(new_filename,
                                  IF counter = 0 THEN 1 ELSE counter,
                                  existing_files, used)
            IN  ResolveRun(list, j + 1, stop, c + 1, existing_files,
                           (file_path :> Candidate(new_filename, c)) @@ resolved,
                           used \cup {Candidate(new_filename, c)})

\* the while loop over the sorted list, from position i
RECURSIVE ResolveFrom(_, _, _, _, _)
ResolveFrom(list, i, existing_files, resolved, used) ==
    IF i > Len(list) THEN resolved
    ELSE
      LET new_filename == list[i][1]
          file_path    == list[i][2]
          c            == SuffixSearch(new_filename, 1, existing_files, used)
          k            == DuplicateCount(list, i)
      IN  IF new_filename \in existing_files
          THEN ResolveFrom(list, i + 1, existing_files,
                           (file_path :> Candidate(new_filename, c)) @@ resolved,
                           used \cup {Candidate(new_filename, c)})
          ELSE IF k = 1
          THEN IF new_filename \notin used
               THEN ResolveFrom(list, i + 1, existing_files,
                                (file_path :> new_filename) @@ resolved,
                                used \cup {new_filename})
               ELSE ResolveFrom(list, i + 1, existing_files,
                                (file_path :> Candidate(new_filename, c)) @@ resolved,
                                used \cup {Candidate(new_filename, c)})
          ELSE LET r == ResolveRun(list, i, i + k - 1, 0, existing_files,
                                   resolved, used)
               IN  ResolveFrom(list, i + k, existing_files, r[1], r[2])

check_and_resolve_duplicates(batch, dir) ==
    ResolveFrom(FileInfoList(batch), 1, ExistingFiles(batch, dir), <<>>, {})

----------------------------------------------------------------------------
(* upload_files.py: FileUploader *)

\* what one requests.post can meet: a response (status code, body) or a
\* raised exception.  A JSON body is given by its code field.
Responses ==
    { [kind |-> "response", status |-> 200, body |-> "json", code |-> 200],
      [kind |-> "response", status |-> 200, body |-> "json", code |-> 500],
      [kind |-> "response", status |-> 200, body |-> "not_json", code |-> 0],
      [kind |-> "response", status |-> 500, body |-> "not_json", code |-> 0],
      [kind |-> "timeout", status |-> 0, body |-> "none", code |-> 0] }

\* mutant of upload_file: only the status code is looked at
upload_file_status_only(resp) ==
    IF resp.kind = "timeout" THEN <<FALSE, "timeout">>
    ELSE IF resp.status = 200 THEN <<TRUE, "">>
    ELSE <<FALSE, "HTTP">>

\* upload_file: (success, error_msg)
upload_file(resp) ==
    IF resp.kind = "timeout" THEN <<FALSE, "timeout">>
    ELSE IF resp.status = 200
         THEN IF resp.body = "not_json" THEN <<TRUE, "">>
              ELSE IF resp.code = 200 THEN <<TRUE, "">>
              ELSE <<FALSE, "msg">>
    ELSE <<FALSE, "HTTP">>

Running(u) == ustate[u] \in {"upload", "unlink", "record"}

\* mutant of Attempts: one pass too many
AttemptsOneMore == 0..(MaxRetries + 1)

\* range(self.max_retries + 1)
Attempts == 0..MaxRetries

\* FileUploader.__init__ with a valid configuration; the upload directory
\* holds any number of files up to MaxUnits
InitUpload ==
    /\ IdleNorm
    /\ IdleStore
    /\ IdleRegistry
    /\ IdleRows
    /\ IdleDedup /\ IdleSync /\ IdleRetry /\ IdleStartup /\ IdleBook /\ IdleScan /\ IdlePipe /\ IdleStat
    /\ upc = "scan"
    /\ local \in { 1..n : n \in 0..MaxUnits }
    /\ files = {}
    /\ ustate = [u \in Units |-> "none"]
    /\ attempt = [u \in Units |-> 0]
    /\ error_msg = [u \in Units |-> ""]
    /\ last = [u \in Units |-> NoResponse]
    /\ result = [u \in Units |-> "none"]
    /\ stats = [total |-> 0, success |-> 0, failed |-> 0, failed_files |-> <<>>]
    /\ calls = [u \in Units |-> 0]
    /\ nSuccess = [u \in Units |-> 0]
    /\ startCount = [u \in Units |-> 0]
    /\ drained = [u \in Units |-> 0]

\* run: scan_files finds nothing and run returns
ScanNothing ==
    /\ upc = "scan"
    /\ local = {}
    /\ upc' = "returned"
    /\ UNCHANGED <<local, files, ustate, attempt, error_msg, last, result,
                   stats, calls, nSuccess, startCount, drained>>
    /\ UNCHANGED nonUploadVars

\* run: scan_files, the statistics are reset, every file is submitted
ScanAndSubmit ==
    /\ upc = "scan"
    /\ local # {}
    /\ files' = local
    /\ stats' = [total |-> Cardinality(local), success |-> 0, failed |-> 0,
                 failed_files |-> <<>>]
    /\ ustate' = [u \in Units |-> IF u \in local THEN "pending" ELSE "none"]
    /\ upc' = "collect"
    /\ UNCHANGED <<local, attempt, error_msg, last, result,
                   calls, nSuccess, startCount, drained>>
    /\ UNCHANGED nonUploadVars

\* mutant of Startable: fail-fast, nothing is started once a unit has failed
StartableUnlessFailed(u) ==
    /\ ustate[u] = "pending"
    /\ \A v \in Units : (v < u) => ustate[v] # "pending"
    /\ Cardinality({ v \in Units : Running(v) }) < MaxWorkers
    /\ \A v \in Units : result[v] # "False"

\* mutant of Startable: a finished unit is taken from the queue again
StartableAgain(u) ==
    /\ ustate[u] \in {"pending", "done"}
    /\ \A v \in Units : (v < u) => ustate[v] # "pending"
    /\ Cardinality({ v \in Units : Running(v) }) < MaxWorkers

\* ThreadPoolExecutor(max_workers): an idle worker takes the oldest work
\* item of the queue
Startable(u) ==
    /\ ustate[u] = "pending"
    /\ \A v \in Units : (v < u) => ustate[v] # "pending"
    /\ Cardinality({ v \in Units : Running(v) }) < MaxWorkers

\* a pool worker calls upload_file_with_retry(file_path); the workers take
\* work items from the queue while the main thread collects and also while
\* it waits in executor.shutdown(wait=True)
Start(u) ==
    /\ upc \in {"collect", "shutdown"}
    /\ Startable(u)
    /\ ustate' = [ustate EXCEPT ![u] = "upload"]
    /\ attempt' = [attempt EXCEPT ![u] = 0]
    /\ startCount' = [startCount EXCEPT ![u] = @ + 1]
    /\ UNCHANGED <<upc, local, files, error_msg, last, result, stats,
                   calls, nSuccess, drained>>
    /\ UNCHANGED nonUploadVars

\* one pass of the for loop: upload_file is called; on success the worker
\* goes on to unlink, on failure it sleeps and makes the next pass when
\* the range has one, else it leaves the loop
UploadAttempt(u) ==
    /\ ustate[u] = "upload"
    /\ \E resp \in Responses :
          LET r == upload_file(resp) IN
          /\ last' = [last EXCEPT ![u] = resp]
          /\ calls' = [calls EXCEPT ![u] = @ + 1]
          /\ IF r[1]
             THEN /\ nSuccess' = [nSuccess EXCEPT ![u] = @ + 1]
                  /\ ustate' = [ustate EXCEPT ![u] = "unlink"]
                  /\ UNCHANGED <<attempt, error_msg>>
             ELSE /\ error_msg' = [error_msg EXCEPT ![u] = r[2]]
                  /\ UNCHANGED nSuccess
                  /\ IF attempt[u] + 1 \in Attempts
                     THEN /\ attempt' = [attempt EXCEPT ![u] = @ + 1]
                          /\ UNCHANGED ustate
                     ELSE /\ ustate' = [ustate EXCEPT ![u] = "record"]
                          /\ UNCHANGED attempt
    /\ UNCHANGED <<upc, local, files, result, stats, startCount, drained>>
    /\ UNCHANGED nonUploadVars

\* after a successful upload: file_path.unlink(), then return True;
\* a failing unlink is logged and the worker returns True all the same
Unlink(u) ==
    /\ ustate[u] = "unlink"
    /\ \/ local' = local \ {u}
       \/ UNCHANGED local
    /\ result' = [result EXCEPT ![u] = "True"]
    /\ ustate' = [ustate EXCEPT ![u] = "done"]
    /\ UNCHANGED <<upc, files, attempt, error_msg, last, stats,
                   calls, nSuccess, startCount, drained>>
    /\ UNCHANGED nonUploadVars

\* mutant of RecordFailure: False is returned without an entry in failed_files
ReturnFalse(u) ==
    /\ ustate[u] = "record"
    /\ result' = [result EXCEPT ![u] = "False"]
    /\ ustate' = [ustate EXCEPT ![u] = "done"]
    /\ UNCHANGED <<upc, local, files, attempt, error_msg, last, stats,
                   calls, nSuccess, startCount, drained>>
    /\ UNCHANGED nonUploadVars

\* all attempts failed: under stats_lock the file and its last error_msg
\* are appended to failed_files, then return False
RecordFailure(u) ==
    /\ ustate[u] = "record"
    /\ stats' = [stats EXCEPT !.failed_files =
                     Append(@, [file |-> u, error |-> error_msg[u]])]
    /\ result' = [result EXCEPT ![u] = "False"]
    /\ ustate' = [ustate EXCEPT ![u] = "done"]
    /\ UNCHANGED <<upc, local, files, attempt, error_msg, last,
                   calls, nSuccess, startCount, drained>>
    /\ UNCHANGED nonUploadVars

\* mutant of Counted: a failed unit is not counted
CountedSuccessOnly(st, success) ==
    IF success THEN [st EXCEPT !.success = @ + 1] ELSE st

\* with self.stats_lock: success += 1 or failed += 1
Counted(st, success) ==
    IF success THEN [st EXCEPT !.success = @ + 1]
    ELSE [st EXCEPT !.failed = @ + 1]

\* mutant of Collect: the loop over as_completed is left after the first
\* future
CollectFirstOnly(u) ==
    /\ upc = "collect"
    /\ ustate[u] = "done"
    /\ \A v \in Units : drained[v] = 0
    /\ stats' = Counted(stats, result[u] = "True")
    /\ drained' = [drained EXCEPT ![u] = @ + 1]
    /\ UNCHANGED <<upc, local, files, ustate, attempt, error_msg, last, result,
                   calls, nSuccess, startCount>>
    /\ UNCHANGED nonUploadVars

\* for future in as_completed(...): success = future.result(), the
\* statistics are updated under stats_lock.  upload_file_with_retry catches
\* every exception, so future.result() does not raise.
Collect(u) ==
    /\ upc = "collect"
    /\ ustate[u] = "done"
    /\ drained[u] = 0
    /\ stats' = Counted(stats, result[u] = "True")
    /\ drained' = [drained EXCEPT ![u] = @ + 1]
    /\ UNCHANGED <<upc, local, files, ustate, attempt, error_msg, last, result,
                   calls, nSuccess, startCount>>
    /\ UNCHANGED nonUploadVars

\* as_completed is exhausted, the with block of the executor is left,
\* print_summary, run returns
Finish ==
    /\ upc = "collect"
    /\ \A u \in files : drained[u] >= 1
    /\ upc' = "returned"
    /\ UNCHANGED <<local, files, ustate, attempt, error_msg, last, result,
                   stats, calls, nSuccess, startCount, drained>>
    /\ UNCHANGED nonUploadVars

NextUpload ==
    \/ ScanNothing
    \/ ScanAndSubmit
    \/ \E u \in Units : Start(u)
    \/ \E u \in Units : UploadAttempt(u)
    \/ \E u \in Units : Unlink(u)
    \/ \E u \in Units : RecordFailure(u)
    \/ \E u \in Units : Collect(u)
    \/ Finish

SpecUpload == InitUpload /\ [][NextUpload]_vars

\* the threads of the pool and the main thread are scheduled fairly
FairSpecUpload == SpecUpload /\ WF_vars(NextUpload)

\* KeyboardInterrupt is raised in the main thread while it is inside the
\* with block of the executor: the block is left through
\* ThreadPoolExecutor.__exit__, i.e. shutdown(wait=True), which cancels no
\* pending future and joins the workers
Interrupt ==
    /\ upc = "collect"
    /\ upc' = "shutdown"
    /\ UNCHANGED <<local, files, ustate, attempt, error_msg, last, result,
                   stats, calls, nSuccess, startCount, drained>>
    /\ UNCHANGED nonUploadVars

\* the workers have emptied the queue and ended, shutdown returns, the
\* exception reaches "except KeyboardInterrupt": sys.exit(0)
Exit ==
    /\ upc = "shutdown"
    /\ \A u \in files : ustate[u] = "done"
    /\ upc' = "exited"
    /\ UNCHANGED <<local, files, ustate, attempt, error_msg, last, result,
                   stats, calls, nSuccess, startCount, drained>>
    /\ UNCHANGED nonUploadVars

NextUploadInterrupt ==
    \/ ScanNothing
    \/ ScanAndSubmit
    \/ \E u \in Units : Start(u)
    \/ \E u \in Units : UploadAttempt(u)
    \/ \E u \in Units : Unlink(u)
    \/ \E u \in Units : RecordFailure(u)
    \/ \E u \in Units : Collect(u)
    \/ Finish
    \/ Interrupt
    \/ Exit

\* the pooled run with an interruption signal that can arrive at any moment
SpecUploadInterrupt == InitUpload /\ [][NextUploadInterrupt]_vars

----------------------------------------------------------------------------
(* C6 .. C10: the upload run *)

\* HTTP 200 with a JSON body whose code field is 200
Code200(resp) ==
    resp.kind = "response" /\ resp.status = 200 /\ resp.body = "json" /\ resp.code = 200

\* HTTP 200 with a body that is not JSON
NotJson200(resp) ==
    resp.kind = "response" /\ resp.status = 200 /\ resp.body = "not_json"

\* C6 as stated: a local file is deleted only after a response with HTTP 200
\* and code 200; after any other response or an exhausted retry it is still
\* present.
C6_DeletedOnlyAfterCode200 ==
    \A u \in files :
        /\ u \notin local => Code200(last[u])
        /\ result[u] = "False" => u \in local

\* C6 as amended: a local file is deleted only after a response with HTTP 200
\* whose body has code 200 or is not JSON; after any other response or an
\* exhausted retry it is still present.
C6_DeletedOnlyAfterAccepted ==
    \A u \in files :
        /\ u \notin local => (Code200(last[u]) \/ NotJson200(last[u]))
        /\ (calls[u] > 0 /\ ~Code200(last[u]) /\ ~NotJson200(last[u])) => u \in local
        /\ result[u] = "False" => u \in local

\* one file was deleted after its upload, another one is kept after its
\* retries were exhausted
C6_Witness ==
    \E u, v \in files :
        /\ u \notin local /\ result[u] = "True"
        /\ v \in local /\ result[v] = "False" /\ calls[v] = MaxRetries + 1

\* C7: after the pooled run returns, success + failed = total, and total is
\* the number of units submitted.
C7_CountsAddUp ==
    upc = "returned" =>
        /\ stats.success + stats.failed = stats.total
        /\ stats.total = Cardinality(files)

\* the run returned with a succeeded and a failed unit
C7_Witness ==
    upc = "returned" /\ stats.success >= 1 /\ stats.failed >= 1

UnitMove(from, to) ==
    \/ from = "none" /\ to = "pending"
    \/ from = "pending" /\ to = "upload"
    \/ from = "upload" /\ to \in {"unlink", "record"}
    \/ from \in {"unlink", "record"} /\ to = "done"

UnitCounts ==
    \A u \in Units :
        /\ startCount[u] <= 1
        /\ drained[u] <= 1
        /\ ustate[u] \in {"none", "pending"} => (startCount[u] = 0 /\ result[u] = "none")
        /\ Running(u) => (startCount[u] = 1 /\ result[u] = "none" /\ drained[u] = 0)
        /\ ustate[u] = "done" => (startCount[u] = 1 /\ result[u] \in {"True", "False"})
        /\ drained[u] = 1 => ustate[u] = "done"
        /\ (upc = "returned" /\ u \in files) =>
              (startCount[u] = 1 /\ drained[u] = 1 /\ ustate[u] = "done")

\* C9: every submitted unit has its worker called exactly once, moves
\* Pending -> Running -> {Succeeded, Failed} and never back, and exactly one
\* outcome per unit is drained by the collector.
C9_EachUnitOnce ==
    /\ []UnitCounts
    /\ [][\A u \in Units :
             /\ ustate'[u] # ustate[u] => UnitMove(ustate[u], ustate'[u])
             /\ result[u] # "none" => result'[u] = result[u]]_vars

\* the run returned and every one of several units was started and drained
C9_Witness ==
    /\ upc = "returned"
    /\ Cardinality(files) >= 2
    /\ \A u \in files : startCount[u] = 1 /\ drained[u] = 1

\* C10: the failure of a unit is the outcome of that unit only: the step
\* that fails it changes no sibling, and once a unit has failed every unit
\* of the run still reaches its terminal state and the run returns.
C10_FailureIsolated ==
    /\ [][\A u \in Units :
             (result'[u] = "False" /\ result[u] = "none") =>
                 \A v \in Units \ {u} :
                     ustate'[v] = ustate[v] /\ result'[v] = result[v]]_vars
    /\ (\E u \in Units : result[u] = "False")
           ~> (upc = "returned" /\ \A v \in files : ustate[v] = "done")

\* a unit has failed while a sibling is still pending
C10_Witness ==
    \E u, v \in files :
        /\ result[u] = "False"
        /\ ustate[v] = "pending"

----------------------------------------------------------------------------
(* C11: interruption of the pooled run *)

\* C11: once the interruption signal was received during the pooled run, no
\* unit that is still pending is started, and the units that were running
\* have finished when the process exits.
C11_NoStartAfterInterrupt ==
    /\ [][\A u \in Units :
             (upc \in {"shutdown", "exited"} /\ ustate[u] = "pending")
                 => ustate'[u] = "pending"]_vars
    /\ [](upc = "exited" => \A u \in Units : ~Running(u))

----------------------------------------------------------------------------
(* The tabular stores.  A store is one xlsx file with a YS sheet; the model *)
(* keeps the data rows (row 2 and below) in row order.                      *)

\* the identity column: XH in the question-answer store, ID in the others
IdOf(s, row) == IF s = QAStore THEN row.XH ELSE row.ID

RECURSIVE SetMax(_)
SetMax(S) ==
    IF S = {} THEN 0
    ELSE LET x == CHOOSE y \in S : TRUE
             m == SetMax(S \ {x})
         IN  IF x > m THEN x ELSE m

\* mutant of MaxId: the number of data rows instead of the largest identity
RowCount(s, rows) == Len(rows)

\* max_id / max_xh: the largest value of the identity column, 0 without rows
MaxId(s, rows) == SetMax({ IdOf(s, rows[i]) : i \in 1..Len(rows) })

\* mutant of DataRow: the increment of max_id is forgotten
DataRowNoIncrement(rows, c) ==
    [ID |-> MaxId(c.store, rows), PolicyFileName |-> c.fn]

\* save_data: row_data with row_data[id_col] = max_id + 1
DataRow(rows, c) ==
    [ID |-> MaxId(c.store, rows) + 1, PolicyFileName |-> c.fn]

\* save_qa_pairs: row_data as built by the pass idx of the loop over
\* qa_pairs; policy["ID"] is the str read_policy_file made of the ID cell of
\* the policy row
QARow(rows, c, idx) ==
    [XH |-> MaxId(QAStore, rows) + idx + 1, ID |-> Str(c.pid)]

\* the rows ws.append adds in one call.  save_data appends its row_data;
\* save_qa_pairs calls ws.append(row_data) once, after its loop has ended,
\* with the row_data of the last pass (idx = len(qa_pairs) - 1)
AppendedRows(rows, c) ==
    IF c.store = QAStore
    THEN <<QARow(rows, c, c.n - 1)>>
    ELSE <<DataRow(rows, c)>>

\* row 1 of a YS sheet.  The header cells hold text; the 0 in a column of
\* numbers stands for that text, which is no number.
HeaderRow(s) ==
    IF s = QAStore THEN [XH |-> 0, ID |-> <<"I", "D">>]
    ELSE [ID |-> 0, PolicyFileName |-> <<"PolicyFileName">>]

\* the YS sheet of a store: header row, then the data rows
Worksheet(s, rows) == <<HeaderRow(s)>> \o rows

\* str.strip(): leading and trailing whitespace is removed
RECURSIVE LStrip(_)
LStrip(str) ==
    IF str # <<>> /\ Head(str) \in Whitespace THEN LStrip(Tail(str)) ELSE str

RECURSIVE RStrip(_)
RStrip(str) ==
    IF str # <<>> /\ str[Len(str)] \in Whitespace
    THEN RStrip(SubSeq(str, 1, Len(str) - 1))
    ELSE str

Strip(str) == RStrip(LStrip(str))

\* mutant of RangeDown: the rows are scanned from the top
RangeUp(hi, lo) == [i \in 1..(hi - lo) |-> lo + i]

\* range(hi, lo, -1): hi, hi - 1, .., lo + 1
RangeDown(hi, lo) == [i \in 1..(hi - lo) |-> hi - i + 1]

\* ws.delete_rows(row_idx): the row is removed, the rows below move up
delete_rows(ws, row_idx) ==
    SubSeq(ws, 1, row_idx - 1) \o SubSeq(ws, row_idx + 1, Len(ws))

\* for row_idx in rows_to_delete: ws.delete_rows(row_idx)
RECURSIVE DeleteRows(_, _)
DeleteRows(ws, rows_to_delete) ==
    IF rows_to_delete = <<>> THEN ws
    ELSE DeleteRows(delete_rows(ws, Head(rows_to_delete)), Tail(rows_to_delete))

\* the cell of a data row matches filename_without_ext
FilenameMatches(row, filename_without_ext) ==
    /\ row.PolicyFileName # <<>>
    /\ Strip(row.PolicyFileName) = filename_without_ext

\* delete_excel_row_by_filename on a loaded sheet with a PolicyFileName
\* column: the sheet it leaves and deleted_count
delete_excel_row_by_filename(ws, filename_without_ext) ==
    LET Matches(row_idx) == FilenameMatches(ws[row_idx], filename_without_ext)
        rows_to_delete == SelectSeq(RangeDown(Len(ws), 1), Matches)
    IN  [ws |-> DeleteRows(ws, rows_to_delete), deleted_count |-> Len(rows_to_delete)]

\* delete_qa_rows_by_policy_id on a loaded sheet with an ID column
delete_qa_rows_by_policy_id(ws, policy_ids) ==
    LET Matches(row_idx) ==
            /\ ws[row_idx].ID # <<>>
            /\ ParseInt(ws[row_idx].ID) # -1
            /\ ParseInt(ws[row_idx].ID) \in policy_ids
        rows_to_delete == SelectSeq(RangeDown(Len(ws), 1), Matches)
    IN  IF policy_ids = {} THEN [ws |-> ws, deleted_count |-> 0]
        ELSE [ws |-> DeleteRows(ws, rows_to_delete),
              deleted_count |-> Len(rows_to_delete)]

\* mutant of get_policy_ids_by_filename: no ID is collected
get_no_policy_ids(ws, filename_without_ext) == {}

\* get_policy_ids_by_filename: the ID of the rows 2..max_row whose
\* PolicyFileName cell matches
get_policy_ids_by_filename(ws, filename_without_ext) ==
    { ws[row_idx].ID :
        row_idx \in { r \in 2..Len(ws) :
                        /\ FilenameMatches(ws[r], filename_without_ext)
                        /\ ws[r].ID # 0 } }

\* mutant of UpdateRows: the value written to a cell is looked up again
RECURSIVE UpdateRowsAgain(_, _, _, _)
UpdateRowsAgain(ws, row_idx, filename_mappings, updated_count) ==
    IF row_idx > Len(ws) THEN [ws |-> ws, updated_count |-> updated_count]
    ELSE LET cell_value == ws[row_idx].PolicyFileName
             cell_filename == Strip(cell_value)
             new_filename == filename_mappings[cell_filename]
         IN  IF cell_value # <<>> /\ cell_filename \in DOMAIN filename_mappings
             THEN UpdateRowsAgain(
                      [ws EXCEPT ![row_idx].PolicyFileName =
                           IF new_filename \in DOMAIN filename_mappings
                           THEN filename_mappings[new_filename]
                           ELSE new_filename],
                      row_idx + 1, filename_mappings, updated_count + 1)
             ELSE UpdateRowsAgain(ws, row_idx + 1, filename_mappings, updated_count)

\* for row_idx in range(2, ws.max_row + 1): the passes from row_idx on
RECURSIVE UpdateRows(_, _, _, _)
UpdateRows(ws, row_idx, filename_mappings, updated_count) ==
    IF row_idx > Len(ws) THEN [ws |-> ws, updated_count |-> updated_count]
    ELSE LET cell_value == ws[row_idx].PolicyFileName
             cell_filename == Strip(cell_value)
         IN  IF cell_value # <<>> /\ cell_filename \in DOMAIN filename_mappings
             THEN UpdateRows(
                      [ws EXCEPT ![row_idx].PolicyFileName =
                           filename_mappings[cell_filename]],
                      row_idx + 1, filename_mappings, updated_count + 1)
             ELSE UpdateRows(ws, row_idx + 1, filename_mappings, updated_count)

\* batch_update_excel_filenames on a loaded sheet with a PolicyFileName
\* column: the sheet it leaves and updated_count
batch_update_excel_filenames(ws, filename_mappings) ==
    IF DOMAIN filename_mappings = {} THEN [ws |-> ws, updated_count |-> 0]
    ELSE UpdateRows(ws, 2, filename_mappings, 0)

\* the data rows a category store is left with by delete_excel_row_by_filename
RowsWithoutFilename(rows, fn) ==
    Tail(delete_excel_row_by_filename(Worksheet("policy", rows), fn).ws)

\* the data rows the question-answer store is left with by
\* delete_qa_rows_by_policy_id
RowsWithoutPolicyIds(rows, policy_ids) ==
    Tail(delete_qa_rows_by_policy_id(Worksheet(QAStore, rows), policy_ids).ws)

\* the stores as get_output_file / save_qa_pairs create them: header only
InitStore == IdleNorm /\ IdleStore /\ IdleUpload /\ IdleRegistry /\ IdleRows /\ IdleDedup /\ IdleSync /\ IdleRetry /\ IdleStartup /\ IdleBook /\ IdleScan /\ IdlePipe /\ IdleStat

\* a thread calls save_data(data, doc_type)
CallSaveData(t) ==
    /\ spc[t] = "idle"
    /\ started < MaxAppends
    /\ \E d \in DocTypes, fn \in FileStems :
          call' = [call EXCEPT ![t] = [store |-> d, fn |-> fn]]
    /\ spc' = [spc EXCEPT ![t] = "get_lock"]
    /\ started' = started + 1
    /\ UNCHANGED <<sheet, file_locks, holder, wb, ret, idLog, deleted>>
    /\ UNCHANGED nonStoreVars

\* a thread calls save_qa_pairs(qa_pairs, policy) with a non-empty list
CallSaveQAPairs(t) ==
    /\ spc[t] = "idle"
    /\ started < MaxAppends
    /\ \E n \in 1..MaxPairs, pid \in PolicyIds :
          call' = [call EXCEPT ![t] = [store |-> QAStore, n |-> n, pid |-> pid]]
    /\ spc' = [spc EXCEPT ![t] = "acquire"]
    /\ started' = started + 1
    /\ UNCHANGED <<sheet, file_locks, holder, wb, ret, idLog, deleted>>
    /\ UNCHANGED nonStoreVars

\* a thread makes a completion-service call: client.chat.completions.create
\* in classify and extract (process_file, before save_data) and in
\* generate_qa_pairs (process_policy, before save_qa_pairs)
CompletionCall(t) ==
    /\ spc[t] = "idle"
    /\ spc' = [spc EXCEPT ![t] = "completion"]
    /\ UNCHANGED <<sheet, file_locks, holder, call, wb, ret, started, idLog, deleted>>
    /\ UNCHANGED nonStoreVars

\* the completion-service call returns or raises; the wrapper returns its
\* value to process_file / process_policy
CompletionReturns(t) ==
    /\ spc[t] = "completion"
    /\ spc' = [spc EXCEPT ![t] = "idle"]
    /\ UNCHANGED <<sheet, file_locks, holder, call, wb, ret, started, idLog, deleted>>
    /\ UNCHANGED nonStoreVars

\* _get_file_lock: under _locks_lock, create the lock of the doc type if it
\* is missing and return it
GetFileLock(t) ==
    /\ spc[t] = "get_lock"
    /\ file_locks' = file_locks \cup {call[t].store}
    /\ spc' = [spc EXCEPT ![t] = "acquire"]
    /\ UNCHANGED <<sheet, holder, call, wb, ret, started, idLog, deleted>>
    /\ UNCHANGED nonStoreVars

\* mutant of LockFree: the lock is handed out while another thread holds it
LockFreeAlways(s) == TRUE

\* threading.Lock: free when no thread is inside its with block
LockFree(s) == holder[s] = 0

\* "with file_lock:" / "with self._file_lock:" is entered
Acquire(t) ==
    /\ spc[t] = "acquire"
    /\ LockFree(call[t].store)
    /\ holder' = [holder EXCEPT ![call[t].store] = t]
    /\ spc' = [spc EXCEPT ![t] = "load"]
    /\ UNCHANGED <<sheet, file_locks, call, wb, ret, started, idLog, deleted>>
    /\ UNCHANGED nonStoreVars

\* load_workbook(output_file), then the row is built and appended in memory
Load(t) ==
    /\ spc[t] = "load"
    /\ wb' = [wb EXCEPT ![t] = sheet[call[t].store]
                                   \o AppendedRows(sheet[call[t].store], call[t])]
    /\ spc' = [spc EXCEPT ![t] = "save"]
    /\ UNCHANGED <<sheet, file_locks, holder, call, ret, started, idLog, deleted>>
    /\ UNCHANGED nonStoreVars

\* wb.save(output_file); return True
Save(t) ==
    /\ spc[t] = "save"
    /\ sheet' = [sheet EXCEPT ![call[t].store] = wb[t]]
    /\ idLog' = [idLog EXCEPT ![call[t].store] =
                     @ \o <<IdOf(call[t].store, wb[t][Len(wb[t])])>>]
    /\ ret' = [ret EXCEPT ![t] = "True"]
    /\ spc' = [spc EXCEPT ![t] = "release"]
    /\ UNCHANGED <<file_locks, holder, call, wb, started, deleted>>
    /\ UNCHANGED nonStoreVars

\* load_workbook or wb.save raises: except Exception ... return False
SaveRaises(t) ==
    /\ spc[t] \in {"load", "save"}
    /\ ret' = [ret EXCEPT ![t] = "False"]
    /\ spc' = [spc EXCEPT ![t] = "release"]
    /\ UNCHANGED <<sheet, file_locks, holder, call, wb, started, idLog, deleted>>
    /\ UNCHANGED nonStoreVars

\* mutant of Release: the call returns and the thread keeps the lock
ReleaseKeepsLock(t) ==
    /\ spc[t] = "release"
    /\ spc' = [spc EXCEPT ![t] = "idle"]
    /\ call' = [call EXCEPT ![t] = NoCall]
    /\ wb' = [wb EXCEPT ![t] = <<>>]
    /\ ret' = [ret EXCEPT ![t] = "none"]
    /\ UNCHANGED <<sheet, file_locks, holder, started, idLog, deleted>>
    /\ UNCHANGED nonStoreVars

\* the with block is left and the call returns
Release(t) ==
    /\ spc[t] = "release"
    /\ holder' = [holder EXCEPT ![call[t].store] = 0]
    /\ spc' = [spc EXCEPT ![t] = "idle"]
    /\ call' = [call EXCEPT ![t] = NoCall]
    /\ wb' = [wb EXCEPT ![t] = <<>>]
    /\ ret' = [ret EXCEPT ![t] = "none"]
    /\ UNCHANGED <<sheet, file_locks, started, idLog, deleted>>
    /\ UNCHANGED nonStoreVars

\* Deduplicator.delete_excel_row_by_filename on a category store; the file is
\* saved only when at least one row was deleted
DeleteExcelRowByFilename(s, fn) ==
    /\ s \in DocTypes
    /\ RowsWithoutFilename(sheet[s], fn) # sheet[s]
    /\ sheet' = [sheet EXCEPT ![s] = RowsWithoutFilename(sheet[s], fn)]
    /\ deleted' = [deleted EXCEPT ![s] = TRUE]
    /\ UNCHANGED <<file_locks, holder, spc, call, wb, ret, started, idLog>>
    /\ UNCHANGED nonStoreVars

\* Deduplicator.delete_qa_rows_by_policy_id on the question-answer store
DeleteQARowsByPolicyId(policy_ids) ==
    /\ policy_ids # {}
    /\ RowsWithoutPolicyIds(sheet[QAStore], policy_ids) # sheet[QAStore]
    /\ sheet' = [sheet EXCEPT ![QAStore] =
                     RowsWithoutPolicyIds(sheet[QAStore], policy_ids)]
    /\ deleted' = [deleted EXCEPT ![QAStore] = TRUE]
    /\ UNCHANGED <<file_locks, holder, spc, call, wb, ret, started, idLog>>
    /\ UNCHANGED nonStoreVars

\* FilenameNormalizer.batch_update_excel_filenames on a category store, for
\* files whose old and new stem both occur in the stores; the file is saved
\* only when at least one cell was updated
BatchUpdateExcelFilenames(s, filename_mappings) ==
    /\ s \in DocTypes
    /\ batch_update_excel_filenames(Worksheet(s, sheet[s]), filename_mappings).updated_count > 0
    /\ sheet' = [sheet EXCEPT ![s] =
                     Tail(batch_update_excel_filenames(Worksheet(s, sheet[s]),
                                                       filename_mappings).ws)]
    /\ UNCHANGED <<file_locks, holder, spc, call, wb, ret, started, idLog, deleted>>
    /\ UNCHANGED nonStoreVars

NextStore ==
    \/ \E t \in Threads : CompletionCall(t)
    \/ \E t \in Threads : CompletionReturns(t)
    \/ \E t \in Threads : CallSaveData(t)
    \/ \E t \in Threads : CallSaveQAPairs(t)
    \/ \E t \in Threads : GetFileLock(t)
    \/ \E t \in Threads : Acquire(t)
    \/ \E t \in Threads : Load(t)
    \/ \E t \in Threads : Save(t)
    \/ \E t \in Threads : SaveRaises(t)
    \/ \E t \in Threads : Release(t)
    \/ \E s \in DocTypes, fn \in FileStems : DeleteExcelRowByFilename(s, fn)
    \/ \E ids \in SUBSET PolicyIds : DeleteQARowsByPolicyId(ids)
    \/ \E s \in DocTypes, old, new \in FileStems :
          old # new /\ BatchUpdateExcelFilenames(s, old :> new)

SpecStore == InitStore /\ [][NextStore]_vars

----------------------------------------------------------------------------
(* C2 .. C5: identities and critical sections of the stores *)

IdsPresent(s) == { IdOf(s, sheet[s][i]) : i \in 1..Len(sheet[s]) }

C3_IdentityNeverReused ==
    \A s \in Stores : \A i, j \in 1..Len(idLog[s]) :
        i # j => idLog[s][i] # idLog[s][j]

\* C4: after K successful appends to a freshly created store (and no row
\* deletion) its identity column holds exactly the values 1..K, in the
\* category stores (ID) and in the question-answer store (XH).
C4_IdentitiesAreOneToK ==
    \A s \in Stores :
        ~deleted[s] =>
            /\ Len(sheet[s]) = Len(idLog[s])
            /\ IdsPresent(s) = 1..Len(idLog[s])

\* C14: every change of a persisted store is made by a thread that holds
\* the lock of that store, whichever operation makes it: the append of
\* save_data and save_qa_pairs, the row deletion of deduplicate.py, the cell
\* update of normalize_filenames.py.
C14_StoreChangesUnderLock ==
    [][\A s \in Stores :
          sheet'[s] # sheet[s] => (holder[s] # 0 /\ spc[holder[s]] = "save")]_vars

\* a thread has loaded the store and not yet persisted it
InReadModifyWrite(t) == spc[t] = "save"

\* C5: load, identity computation, append and persist of one call happen
\* inside one critical section of the store's lock: no thread loads a store
\* between another thread's load and persist of the same store.
C5_NoInterleavedReadModifyWrite ==
    /\ \A t \in Threads :
          spc[t] \in {"load", "save", "release"} => holder[call[t].store] = t
    /\ \A t, u \in Threads :
          (t # u /\ InReadModifyWrite(t) /\ call[u].store = call[t].store)
              => spc[u] \notin {"load", "save", "release"}

\* one thread is between load and persist while another one waits for the
\* lock of the same store
C5_Witness ==
    \E t, u \in Threads :
        /\ t # u
        /\ InReadModifyWrite(t)
        /\ spc[u] = "acquire"
        /\ call[u].store = call[t].store

----------------------------------------------------------------------------
(* The row operations of deduplicate.py and normalize_filenames.py, each    *)
(* applied once to a sheet the stores can hold.                             *)

\* the k-th smallest element of a set of numbers
Nth(I, k) == CHOOSE x \in I : Cardinality({ y \in I : y < x }) = k - 1

\* the YS sheets of a category store: the rows carry increasing ID values
\* (an append gives max + 1) and a stem each
CategorySheets ==
    UNION { { Worksheet("policy",
                 [k \in 1..Cardinality(I) |->
                     [ID |-> Nth(I, k), PolicyFileName |-> f[Nth(I, k)]]]) :
              f \in [I -> FileStems] } :
            I \in SUBSET (1..MaxRows) }

\* the YS sheets of the question-answer store: increasing XH values, and the
\* ID of a policy, as text, each
QASheets ==
    UNION { { Worksheet(QAStore,
                 [k \in 1..Cardinality(I) |->
                     [XH |-> Nth(I, k), ID |-> Str(g[Nth(I, k)])]]) :
              g \in [I -> PolicyIds] } :
            I \in SUBSET (1..MaxRows) }

\* the stems deduplicate.py can look for: delete_file.stem
DeleteValues == FileStems \cup {ReportC, ReportA \o <<" ">>}

\* the dicts batch_update_excel_filenames can be given: old stem -> new
\* stem of renamed files, the new stem differing from the old one
Mappings ==
    { m \in UNION { [K -> {ReportA, ReportB, ReportC}] : K \in SUBSET FileStems } :
        \A k \in DOMAIN m : m[k] # k }

InitRows ==
    /\ IdleNorm
    /\ IdleStore
    /\ IdleUpload
    /\ IdleRegistry
    /\ IdleDedup /\ IdleSync /\ IdleRetry /\ IdleStartup /\ IdleBook /\ IdleScan /\ IdlePipe /\ IdleStat
    /\ ws_before \in CategorySheets \cup QASheets
    /\ ws_after = ws_before
    /\ op = NoOp
    /\ op_ret = 0

\* delete_excel_row_by_filename(excel_file, filename_without_ext); the file
\* is saved when deleted_count > 0
OpDeleteByFilename ==
    /\ op = NoOp
    /\ ws_before \in CategorySheets
    /\ \E fn \in DeleteValues :
          LET r == delete_excel_row_by_filename(ws_before, fn) IN
          /\ op' = [name |-> "delete_excel_row_by_filename", arg |-> fn]
          /\ ws_after' = IF r.deleted_count > 0 THEN r.ws ELSE ws_before
          /\ op_ret' = r.deleted_count
    /\ UNCHANGED ws_before
    /\ UNCHANGED nonRowsVars

\* delete_qa_rows_by_policy_id(qa_excel_file, policy_ids)
OpDeleteByPolicyId ==
    /\ op = NoOp
    /\ ws_before \in QASheets
    /\ \E ids \in SUBSET PolicyIds :
          LET r == delete_qa_rows_by_policy_id(ws_before, ids) IN
          /\ op' = [name |-> "delete_qa_rows_by_policy_id", arg |-> ids]
          /\ ws_after' = IF r.deleted_count > 0 THEN r.ws ELSE ws_before
          /\ op_ret' = r.deleted_count
    /\ UNCHANGED ws_before
    /\ UNCHANGED nonRowsVars

\* batch_update_excel_filenames(excel_file, filename_mappings); the file is
\* saved when updated_count > 0
OpBatchUpdate ==
    /\ op = NoOp
    /\ ws_before \in CategorySheets
    /\ \E m \in Mappings :
          LET r == batch_update_excel_filenames(ws_before, m) IN
          /\ op' = [name |-> "batch_update_excel_filenames", arg |-> m]
          /\ ws_after' = IF r.updated_count > 0 THEN r.ws ELSE ws_before
          /\ op_ret' = r.updated_count
    /\ UNCHANGED ws_before
    /\ UNCHANGED nonRowsVars

\* load_workbook or wb.save raises inside one of the operations:
\* except Exception ... return 0, the file is as it was
OpRaises ==
    /\ op = NoOp
    /\ op' = [name |-> "raised"]
    /\ op_ret' = 0
    /\ UNCHANGED <<ws_before, ws_after>>
    /\ UNCHANGED nonRowsVars

NextRows ==
    \/ OpDeleteByFilename
    \/ OpDeleteByPolicyId
    \/ OpBatchUpdate
    \/ OpRaises

SpecRows == InitRows /\ [][NextRows]_vars

----------------------------------------------------------------------------
(* C18, C19: row deletion and cell update *)

\* the data rows of a sheet
DataRows(ws) == Tail(ws)

\* C18: a row deletion that does not raise removes every data row whose
\* cell matches (PolicyFileName equal to the value; ID in policy_ids for
\* the question-answer store), returns the number of rows removed, keeps
\* the header and keeps the other rows in their order; deleting report_a
\* from a sheet with the single row (1, report_a) returns 1 and leaves no
\* data row.
C18_DeleteRowsMatching ==
    /\ op.name = "delete_excel_row_by_filename" =>
          LET Keep(row) == row.PolicyFileName # op.arg IN
          /\ ws_after # <<>>
          /\ ws_after[1] = ws_before[1]
          /\ DataRows(ws_after) = SelectSeq(DataRows(ws_before), Keep)
          /\ op_ret = Len(ws_before) - Len(ws_after)
          /\ (/\ DataRows(ws_before) = <<[ID |-> 1, PolicyFileName |-> ReportA]>>
              /\ op.arg = ReportA)
                 => (op_ret = 1 /\ DataRows(ws_after) = <<>>)
    /\ op.name = "delete_qa_rows_by_policy_id" =>
          LET Keep(row) == row.ID \notin { Str(id) : id \in op.arg } IN
          /\ ws_after # <<>>
          /\ ws_after[1] = ws_before[1]
          /\ DataRows(ws_after) = SelectSeq(DataRows(ws_before), Keep)
          /\ op_ret = Len(ws_before) - Len(ws_after)

\* the first data row was removed and two rows below it were kept
C18_Witness ==
    /\ op.name = "delete_excel_row_by_filename"
    /\ Len(ws_before) = 4
    /\ ws_before[2].PolicyFileName = op.arg
    /\ op_ret = 1
    /\ Len(ws_after) = 3

\* C19: a batch update that does not raise visits every data row once,
\* from the top: the PolicyFileName cell of a row is replaced by the value
\* mapped to the cell's value before the call exactly when that value is a
\* key of the mapping; the other rows, the other cells and the header are
\* unchanged; a value the update wrote is not mapped again; the returned
\* count is the number of rows changed.
C19_BatchUpdate ==
    op.name = "batch_update_excel_filenames" =>
        /\ Len(ws_after) = Len(ws_before)
        /\ ws_after[1] = ws_before[1]
        /\ \A i \in 2..Len(ws_before) :
              /\ ws_after[i].ID = ws_before[i].ID
              /\ ws_after[i].PolicyFileName =
                    IF ws_before[i].PolicyFileName \in DOMAIN op.arg
                    THEN op.arg[ws_before[i].PolicyFileName]
                    ELSE ws_before[i].PolicyFileName
        /\ op_ret = Cardinality({ i \in 2..Len(ws_before) : ws_after[i] # ws_before[i] })

\* the mapping sends report_a to report_b and report_b on to report_c; a
\* row with report_a now holds report_b, and a row with neither is as it was
C19_Witness ==
    /\ op.name = "batch_update_excel_filenames"
    /\ DOMAIN op.arg = {ReportA, ReportB}
    /\ op.arg[ReportA] = ReportB
    /\ op.arg[ReportB] = ReportC
    /\ \E i, j \in 2..Len(ws_before) :
          /\ ws_before[i].PolicyFileName = ReportA
          /\ ws_after[i].PolicyFileName = ReportB
          /\ ws_before[j].PolicyFileName = ReportB
          /\ ws_after[j].PolicyFileName = ReportC
    /\ op_ret = Len(ws_before) - 1

----------------------------------------------------------------------------
(* DataStorage._get_file_lock: the registry of the store locks, and the way *)
(* save_data uses the lock it gets.                                         *)

InitRegistry == IdleNorm /\ IdleStore /\ IdleUpload /\ IdleRegistry /\ IdleRows /\ IdleDedup /\ IdleSync /\ IdleRetry /\ IdleStartup /\ IdleBook /\ IdleScan /\ IdlePipe /\ IdleStat

\* a thread calls save_data(data, doc_type): file_lock = self._get_file_lock(doc_type)
RegCall(t) ==
    /\ rpc[t] = "idle"
    /\ rcalls < MaxCalls
    /\ \E d \in DocTypes : rkey' = [rkey EXCEPT ![t] = d]
    /\ rpc' = [rpc EXCEPT ![t] = "enter"]
    /\ rcalls' = rcalls + 1
    /\ UNCHANGED <<registry, locks_lock, lock_objs, rgot, returned>>
    /\ UNCHANGED nonRegistryVars

\* mutant of LocksLockFree: _locks_lock never makes a thread wait
LocksLockFreeAlways == TRUE

\* cls._locks_lock is free when no thread is inside its with block
LocksLockFree == locks_lock = 0

\* "with cls._locks_lock:" is entered
EnterLocksLock(t) ==
    /\ rpc[t] = "enter"
    /\ LocksLockFree
    /\ locks_lock' = t
    /\ rpc' = [rpc EXCEPT ![t] = "check"]
    /\ UNCHANGED <<registry, lock_objs, rkey, rgot, returned, rcalls>>
    /\ UNCHANGED nonRegistryVars

\* if doc_type not in cls._file_locks
CheckKey(t) ==
    /\ rpc[t] = "check"
    /\ rpc' = [rpc EXCEPT ![t] = IF registry[rkey[t]] = 0 THEN "create" ELSE "return"]
    /\ UNCHANGED <<registry, locks_lock, lock_objs, rkey, rgot, returned, rcalls>>
    /\ UNCHANGED nonRegistryVars

\* cls._file_locks[doc_type] = threading.Lock()
CreateLock(t) ==
    /\ rpc[t] = "create"
    /\ lock_objs' = Append(lock_objs, [key |-> rkey[t], owner |-> 0])
    /\ registry' = [registry EXCEPT ![rkey[t]] = Len(lock_objs) + 1]
    /\ rpc' = [rpc EXCEPT ![t] = "return"]
    /\ UNCHANGED <<locks_lock, rkey, rgot, returned, rcalls>>
    /\ UNCHANGED nonRegistryVars

\* mutant of LocksLockOnReturn: _locks_lock stays with the thread that
\* looked the lock up
LocksLockKeptOnReturn(t) == t

\* the with block of _locks_lock is left when _get_file_lock returns
LocksLockOnReturn(t) == 0

\* return cls._file_locks[doc_type]
ReturnLock(t) ==
    /\ rpc[t] = "return"
    /\ rgot' = [rgot EXCEPT ![t] = registry[rkey[t]]]
    /\ returned' = [returned EXCEPT ![rkey[t]] = @ \cup {registry[rkey[t]]}]
    /\ locks_lock' = LocksLockOnReturn(t)
    /\ rpc' = [rpc EXCEPT ![t] = "acquire"]
    /\ UNCHANGED <<registry, lock_objs, rkey, rcalls>>
    /\ UNCHANGED nonRegistryVars

\* save_data: "with file_lock:" is entered
AcquireFileLock(t) ==
    /\ rpc[t] = "acquire"
    /\ lock_objs[rgot[t]].owner = 0
    /\ lock_objs' = [lock_objs EXCEPT ![rgot[t]].owner = t]
    /\ rpc' = [rpc EXCEPT ![t] = "using"]
    /\ UNCHANGED <<registry, locks_lock, rkey, rgot, returned, rcalls>>
    /\ UNCHANGED nonRegistryVars

\* save_data: the body of the with block has run, the block is left and
\* save_data returns
ReleaseFileLock(t) ==
    /\ rpc[t] = "using"
    /\ lock_objs' = [lock_objs EXCEPT ![rgot[t]].owner = 0]
    /\ rpc' = [rpc EXCEPT ![t] = "idle"]
    /\ rkey' = [rkey EXCEPT ![t] = "none"]
    /\ rgot' = [rgot EXCEPT ![t] = 0]
    /\ UNCHANGED <<registry, locks_lock, returned, rcalls>>
    /\ UNCHANGED nonRegistryVars

NextRegistry ==
    \/ \E t \in Threads : RegCall(t)
    \/ \E t \in Threads : EnterLocksLock(t)
    \/ \E t \in Threads : CheckKey(t)
    \/ \E t \in Threads : CreateLock(t)
    \/ \E t \in Threads : ReturnLock(t)
    \/ \E t \in Threads : AcquireFileLock(t)
    \/ \E t \in Threads : ReleaseFileLock(t)

SpecRegistry == InitRegistry /\ [][NextRegistry]_vars

----------------------------------------------------------------------------
(* C12, C13: the lock registry *)

\* the locks created for a doc type
LocksOf(d) == { i \in 1..Len(lock_objs) : lock_objs[i].key = d }

\* C12: for every doc type at most one lock is ever created and one and the
\* same lock is returned by every _get_file_lock call for it, under every
\* interleaving of the calls; the locks of distinct doc types are distinct.
C12_OneLockPerKey ==
    /\ \A d \in DocTypes :
          /\ Cardinality(LocksOf(d)) <= 1
          /\ Cardinality(returned[d]) <= 1
          /\ returned[d] \subseteq LocksOf(d)
    /\ \A d, e \in DocTypes : d # e => returned[d] \cap returned[e] = {}
    /\ \A t \in Threads :
          rpc[t] \in {"acquire", "using"} => rgot[t] \in returned[rkey[t]]

\* two threads that made their first acquire of one doc type concurrently
\* hold the same lock object, and the other doc type has a lock of its own
C12_Witness ==
    /\ \E t, u \in Threads :
          /\ t # u
          /\ rkey[t] = rkey[u]
          /\ rpc[t] = "using"
          /\ rpc[u] = "acquire"
          /\ rgot[t] = rgot[u]
    /\ \A d \in DocTypes : registry[d] # 0

\* u waits for a lock that t holds
BlockedBy(u, t) ==
    \/ rpc[u] = "enter" /\ locks_lock = t
    \/ rpc[u] = "acquire" /\ lock_objs[rgot[u]].owner = t

\* C13: _locks_lock is held only for the lookup-or-create step: a thread
\* that acquires or uses the lock it got does not hold _locks_lock, and a
\* thread that uses the lock of one store blocks no thread whose call is for
\* another store.
C13_RegistryLockOnlyForLookup ==
    /\ \A t \in Threads :
          rpc[t] \in {"idle", "enter", "acquire", "using"} => locks_lock # t
    /\ \A t, u \in Threads :
          (t # u /\ rpc[t] \in {"acquire", "using"} /\ rpc[u] # "idle"
               /\ rkey[u] # rkey[t])
              => ~BlockedBy(u, t)

\* two threads are inside the with blocks of the locks of two stores at the
\* same time
C13_Witness ==
    \E t, u \in Threads :
        /\ rpc[t] = "using"
        /\ rpc[u] = "using"
        /\ rkey[t] # rkey[u]

----------------------------------------------------------------------------
(* FilenameNormalizer: scan_files, then process_files *)

\* the names the directory is populated from
StemUniverse ==
    { <<"a", " ", "b">>, <<"a", "\t", "b">>, <<"a", " ", " ", "b">>,
      <<"a", "_", "b">>, <<"a", "_", "b", "_", "1">>, <<"a", " ", "b", "_", "1">>,
      <<"a", "_", "b", "_", "2">>, <<"a", "(", "b">>, <<"a", "FW(", "b">> }

NameUniverse ==
    { Name(s, <<".", "d", "o", "c", "x">>) : s \in StemUniverse }
        \cup { Name(<<"a", " ", "b">>, <<".", "p", "d", "f">>),
               Name(<<"a", "_", "b">>, <<".", "t", "x", "t">>) }

\* every order in which iterdir() can list the files of S
Orders(S) ==
    { s \in [1..Cardinality(S) -> S] : \A i, j \in 1..Cardinality(S) :
                                          i # j => s[i] # s[j] }

\* scan_files: the document files of the directory that need normalization
ScanFiles(dir) == { f \in dir : IsDocFile(f) /\ needs_normalization(f) }

InitNorm ==
    /\ IdleStore
    /\ IdleUpload
    /\ IdleRegistry
    /\ IdleRows
    /\ IdleDedup /\ IdleSync /\ IdleRetry /\ IdleStartup /\ IdleBook /\ IdleScan /\ IdlePipe /\ IdleStat
    /\ dirFiles \in { D \in SUBSET NameUniverse : Cardinality(D) <= MaxFiles }
    /\ files_list \in Orders(ScanFiles(dirFiles))
    /\ resolved_names = <<>>
    /\ resolved_again = <<>>
    /\ npc = "scanned"

\* process_files, step 1: resolved_names = check_and_resolve_duplicates(...)
Resolve ==
    /\ npc = "scanned"
    /\ resolved_names' = check_and_resolve_duplicates(files_list, dirFiles)
    /\ npc' = "resolved"
    /\ UNCHANGED <<dirFiles, files_list, resolved_again>>
    /\ UNCHANGED nonNormVars

\* check_and_resolve_duplicates is called once more with the same batch,
\* before any file of the directory was renamed
ResolveAgain ==
    /\ npc = "resolved"
    /\ resolved_again' = check_and_resolve_duplicates(files_list, dirFiles)
    /\ npc' = "resolved_twice"
    /\ UNCHANGED <<dirFiles, files_list, resolved_names>>
    /\ UNCHANGED nonNormVars

NextNorm ==
    \/ Resolve
    \/ ResolveAgain

SpecNorm == InitNorm /\ [][NextNorm]_vars

----------------------------------------------------------------------------
(* C1 *)

BatchSet == { files_list[i] : i \in 1..Len(files_list) }

\* C1: the resolved names of a batch are pairwise distinct, every file of the
\* batch has one, and none equals the name of a document file of the
\* directory that is not in the batch.
C1_ResolvedNamesDistinct ==
    npc = "resolved" =>
        /\ DOMAIN resolved_names = BatchSet
        /\ \A f, g \in BatchSet : f # g => resolved_names[f] # resolved_names[g]
        /\ \A f \in BatchSet :
              resolved_names[f] \notin { g \in dirFiles \ BatchSet : IsDocFile(g) }

\* a batch with a run of equal proposals whose base name and first suffix are
\* both taken on disk has been resolved
C1_Witness ==
    /\ npc = "resolved"
    /\ \E f, g \in BatchSet : f # g /\ normalize_filename(f) = normalize_filename(g)
    /\ \E f \in BatchSet : \E h \in dirFiles \ BatchSet :
          h = Candidate(normalize_filename(f), 1)

----------------------------------------------------------------------------
(* C15 .. C17: the resolver *)

OnDisk == { g \in dirFiles \ BatchSet : IsDocFile(g) }

\* r is new_filename with a suffix _N
Suffixed(r, new_filename) ==
    \E N \in 1..(Len(files_list) + Cardinality(dirFiles)) :
        r = Candidate(new_filename, N)

\* C16: of the files of the batch that propose the same name, the first one
\* in the order of files_list keeps the name when it is free (not on disk,
\* not resolved for a file with another proposal) and every later one gets
\* a suffixed name; for the two files "a b.docx" and "a<TAB>b.docx" alone in
\* the directory the first of files_list becomes a_b.docx and the second
\* a_b_1.docx.
C16_FirstKeepsBaseName ==
    npc \in {"resolved", "resolved_twice"} =>
        /\ \A i, j \in 1..Len(files_list) :
              (i < j /\ normalize_filename(files_list[i]) = normalize_filename(files_list[j]))
                  => /\ resolved_names[files_list[j]] # normalize_filename(files_list[j])
                     /\ Suffixed(resolved_names[files_list[j]],
                                 normalize_filename(files_list[j]))
        /\ \A i \in 1..Len(files_list) :
              LET new_filename == normalize_filename(files_list[i]) IN
              (/\ \A h \in 1..(i - 1) : normalize_filename(files_list[h]) # new_filename
               /\ \E j \in (i + 1)..Len(files_list) :
                     normalize_filename(files_list[j]) = new_filename
               /\ new_filename \notin OnDisk
               /\ \A h \in 1..Len(files_list) :
                     normalize_filename(files_list[h]) # new_filename
                         => resolved_names[files_list[h]] # new_filename)
                  => resolved_names[files_list[i]] = new_filename
        /\ (/\ dirFiles = BatchSet
            /\ Len(files_list) = 2
            /\ normalize_filename(files_list[1]) =
                   Name(<<"a", "_", "b">>, <<".", "d", "o", "c", "x">>)
            /\ normalize_filename(files_list[2]) = normalize_filename(files_list[1]))
               => /\ resolved_names[files_list[1]] =
                        Name(<<"a", "_", "b">>, <<".", "d", "o", "c", "x">>)
                  /\ resolved_names[files_list[2]] =
                        Name(<<"a", "_", "b", "_", "1">>, <<".", "d", "o", "c", "x">>)

\* "a<TAB>b.docx" is listed before "a b.docx", nothing else is in the
\* directory, and it is "a<TAB>b.docx" that became a_b.docx
C16_Witness ==
    /\ npc = "resolved"
    /\ dirFiles = BatchSet
    /\ files_list = << Name(<<"a", "\t", "b">>, <<".", "d", "o", "c", "x">>),
                       Name(<<"a", " ", "b">>, <<".", "d", "o", "c", "x">>) >>
    /\ resolved_names[files_list[1]] =
          Name(<<"a", "_", "b">>, <<".", "d", "o", "c", "x">>)
    /\ resolved_names[files_list[2]] =
          Name(<<"a", "_", "b", "_", "1">>, <<".", "d", "o", "c", "x">>)

\* the place of a file of the batch in the sorted file_info_list
PlaceOf(f) ==
    CHOOSE p \in 1..Len(files_list) : FileInfoList(files_list)[p][2] = f

\* the names that are taken when the resolver comes to f: the names on disk
\* and the names resolved for the files before f in file_info_list
OccupiedBefore(f) ==
    OnDisk \cup { resolved_names[h] : h \in { g \in BatchSet : PlaceOf(g) < PlaceOf(f) } }

\* C17: when a file gets the suffixed name base_N.ext, base_N.ext is not
\* taken at that moment and every base_M.ext with 1 <= M < N is taken, on
\* disk or by a file resolved earlier in the batch.
C17_LeastFreeSuffix ==
    npc \in {"resolved", "resolved_twice"} =>
        \A f \in BatchSet :
            resolved_names[f] # normalize_filename(f) =>
                \E N \in 1..(Len(files_list) + Cardinality(dirFiles)) :
                    /\ resolved_names[f] = Candidate(normalize_filename(f), N)
                    /\ resolved_names[f] \notin OccupiedBefore(f)
                    /\ \A M \in 1..(N - 1) :
                          Candidate(normalize_filename(f), M) \in OccupiedBefore(f)

\* a file got the suffix _2 because _1 was taken by a file resolved before
\* it in the batch
C17_Witness ==
    /\ npc = "resolved"
    /\ \E f \in BatchSet : \E h \in BatchSet :
          /\ PlaceOf(h) < PlaceOf(f)
          /\ resolved_names[f] = Candidate(normalize_filename(f), 2)
          /\ resolved_names[h] = Candidate(normalize_filename(f), 1)

----------------------------------------------------------------------------
(* deduplicate.py: process_duplicates.  A file is [cat, stem, ext]: the     *)
(* category directory it is in, Path.stem and Path.suffix.                  *)

DedupFiles == [cat : DocTypes, stem : FileStems, ext : {".docx", ".pdf"}]

\* the files of a list of groups: keep_file and delete_files of each
FilesOf(dups) ==
    UNION { {dups[g][1]} \cup { dups[g][2][d] : d \in 1..Len(dups[g][2]) } :
            g \in 1..Len(dups) }

\* the number of files the groups tell to delete
DeleteCount(dups) ==
    IF Len(dups) = 0 THEN 0
    ELSE IF Len(dups) = 1 THEN Len(dups[1][2])
    ELSE Len(dups[1][2]) + Len(dups[2][2])

\* find_duplicates: a group is the files of one hash, the first one kept and
\* the other ones (at least one) to delete; a file is in one group, once
DuplicateLists ==
    LET Groups == { <<keep_file, delete_files>> :
                      keep_file \in DedupFiles,
                      delete_files \in UNION { [1..n -> DedupFiles] : n \in 1..MaxDeletes } }
        Disjoint(dups) ==
            Cardinality(FilesOf(dups)) = Len(dups) + DeleteCount(dups)
    IN  { dups \in { <<g>> : g \in Groups } \cup (Groups \X Groups) :
            DeleteCount(dups) <= MaxDeletes /\ Disjoint(dups) }

\* the members of a set in one fixed order
SeqOf(S) ==
    CHOOSE q \in [1..Cardinality(S) -> S] : { q[k] : k \in 1..Cardinality(S) } = S

\* the rows main.py has saved for the files P of category directory c: ID
\* 1, 2, ... and the stem of the file as PolicyFileName
CategoryRows(P, c) ==
    LET q == SeqOf({ f \in P : f.cat = c })
    IN  [k \in 1..Len(q) |-> [ID |-> k, PolicyFileName |-> q[k].stem]]

\* the rows generate_qa.py has saved for the policies Q: the ID of the
\* policy as text
QARows(Q) ==
    [k \in 1..Cardinality(Q) |-> [XH |-> k, ID |-> Str(Nth(Q, k))]]

\* the state process_duplicates is called in: some of the files have been
\* processed and have a row, some of the policies have a question-answer row
InitDedup ==
    /\ IdleNorm /\ IdleUpload /\ IdleRegistry /\ IdleRows /\ IdleSync /\ IdleRetry /\ IdleStartup /\ IdleBook /\ IdleScan /\ IdlePipe /\ IdleStat
    /\ file_locks = {}
    /\ holder = [s \in Stores |-> 0]
    /\ spc = [t \in Threads |-> "idle"]
    /\ call = [t \in Threads |-> NoCall]
    /\ wb = [t \in Threads |-> <<>>]
    /\ ret = [t \in Threads |-> "none"]
    /\ started = 0
    /\ idLog = [s \in Stores |-> <<>>]
    /\ deleted = [s \in Stores |-> FALSE]
    /\ duplicates \in DuplicateLists
    /\ dfiles = FilesOf(duplicates)
    /\ \E P \in SUBSET dfiles :
          \E Q \in SUBSET (1..Len(CategoryRows(P, "policy"))) :
              sheet = [s \in Stores |->
                         IF s = QAStore THEN QARows(Q) ELSE CategoryRows(P, s)]
    /\ dpc = "file"
    /\ gi = 1
    /\ di = 1
    /\ policy_ids_to_delete = {}
    /\ dstats = [files_deleted |-> 0, excel_rows_deleted |-> 0, qa_rows_deleted |-> 0]
    /\ removed_ids = {}
    /\ faulted = FALSE

\* get_category_from_path(keep_file): the category of the group
Category == duplicates[gi][1].cat

\* delete_file of the inner loop, and its stem
DeleteFileOf == duplicates[gi][2][di]

\* step 2: for a group whose keep_file is a policy file the ID of the rows
\* of delete_file.stem are added to policy_ids_to_delete; a call that raises
\* returns the empty set
CollectPolicyIds ==
    /\ dpc = "file"
    /\ IF Category = "policy"
       THEN \E raises \in BOOLEAN :
              /\ policy_ids_to_delete' =
                    policy_ids_to_delete \cup
                        (IF raises THEN {}
                         ELSE get_policy_ids_by_filename(
                                  Worksheet("policy", sheet["policy"]),
                                  DeleteFileOf.stem))
              /\ faulted' = (faulted \/ raises)
       ELSE UNCHANGED <<policy_ids_to_delete, faulted>>
    /\ dpc' = "delete_row"
    /\ UNCHANGED <<sheet, duplicates, gi, di, dstats, dfiles, removed_ids>>
    /\ UNCHANGED nonDedupVars

\* step 3: delete_excel_row_by_filename on the store of the group's
\* category; a call that raises returns 0 and leaves the file as it was
DeleteExcelRow ==
    /\ dpc = "delete_row"
    /\ \E raises \in BOOLEAN :
          LET r == delete_excel_row_by_filename(
                       Worksheet(Category, sheet[Category]), DeleteFileOf.stem)
              gone == { sheet[Category][k].ID :
                          k \in { x \in 1..Len(sheet[Category]) :
                                    FilenameMatches(sheet[Category][x],
                                                    DeleteFileOf.stem) } }
          IN  /\ sheet' = IF raises THEN sheet
                          ELSE [sheet EXCEPT ![Category] = Tail(r.ws)]
              /\ dstats' = [dstats EXCEPT !.excel_rows_deleted =
                               @ + (IF raises THEN 0 ELSE r.deleted_count)]
              /\ removed_ids' = IF raises \/ Category # "policy" THEN removed_ids
                                ELSE removed_ids \cup gone
              /\ faulted' = (faulted \/ raises)
    /\ dpc' = "delete_file"
    /\ UNCHANGED <<duplicates, gi, di, policy_ids_to_delete, dfiles>>
    /\ UNCHANGED nonDedupVars

\* step 4: delete_file (unlink may fail), then the next delete_file, the
\* next group, or the end of the loops
DeleteFile ==
    /\ dpc = "delete_file"
    /\ \E unlinked \in BOOLEAN :
          /\ dfiles' = IF unlinked THEN dfiles \ {DeleteFileOf} ELSE dfiles
          /\ dstats' = [dstats EXCEPT !.files_deleted = @ + (IF unlinked THEN 1 ELSE 0)]
    /\ IF di < Len(duplicates[gi][2])
       THEN di' = di + 1 /\ gi' = gi /\ dpc' = "file"
       ELSE IF gi < Len(duplicates)
            THEN di' = 1 /\ gi' = gi + 1 /\ dpc' = "file"
            ELSE di' = di /\ gi' = gi /\ dpc' = "cascade"
    /\ UNCHANGED <<sheet, duplicates, policy_ids_to_delete, removed_ids, faulted>>
    /\ UNCHANGED nonDedupVars

\* step 5: when IDs were collected, delete_qa_rows_by_policy_id on the
\* question-answer store; a call that raises returns 0
CascadeQA ==
    /\ dpc = "cascade"
    /\ IF policy_ids_to_delete # {}
       THEN \E raises \in BOOLEAN :
              LET r == delete_qa_rows_by_policy_id(
                           Worksheet(QAStore, sheet[QAStore]), policy_ids_to_delete)
              IN  /\ sheet' = IF raises THEN sheet
                              ELSE [sheet EXCEPT ![QAStore] = Tail(r.ws)]
                  /\ dstats' = [dstats EXCEPT !.qa_rows_deleted =
                                   IF raises THEN 0 ELSE r.deleted_count]
                  /\ faulted' = (faulted \/ raises)
       ELSE UNCHANGED <<sheet, dstats, faulted>>
    /\ dpc' = "done"
    /\ UNCHANGED <<duplicates, gi, di, policy_ids_to_delete, dfiles, removed_ids>>
    /\ UNCHANGED nonDedupVars

NextDedup ==
    \/ CollectPolicyIds
    \/ DeleteExcelRow
    \/ DeleteFile
    \/ CascadeQA

SpecDedup == InitDedup /\ [][NextDedup]_vars

DeletedFiles == FilesOf(duplicates) \ dfiles

\* C21: when process_duplicates has completed without a raise, the store of
\* the category directory a deleted file was in has no row whose
\* PolicyFileName is the stem of that file.
C21_RowsOfDeletedFileRemoved ==
    (dpc = "done" /\ ~faulted) =>
        \A f \in DeletedFiles :
            \A k \in 1..Len(sheet[f.cat]) :
                sheet[f.cat][k].PolicyFileName # f.stem

----------------------------------------------------------------------------
(* normalize_filenames.py: run.  The prompt, then process_files for one     *)
(* category: resolve, rename in a thread pool, update the store once.       *)

\* what can be typed at the prompt
PromptAnswers ==
    { <<"y">>, <<"Y">>, <<" ", "y">>, <<"n">>, <<"y", "e", "s">>, <<>> }

\* str.lower()
Lower(str) == [i \in 1..Len(str) |-> IF str[i] = "Y" THEN "y" ELSE str[i]]

\* the rows main.py saved for the files of the batch, in the order of
\* files_list: row k is the row of files_list[k]
BatchRows(batch) ==
    [k \in 1..Len(batch) |-> [ID |-> k, PolicyFileName |-> batch[k].stem]]

\* the normalizer is started on a directory whose files to normalize have
\* been processed by main.py
InitSync ==
    /\ IdleUpload /\ IdleRegistry /\ IdleRows /\ IdleDedup /\ IdleRetry /\ IdleStartup /\ IdleBook /\ IdleScan /\ IdlePipe /\ IdleStat
    /\ file_locks = {}
    /\ holder = [s \in Stores |-> 0]
    /\ spc = [t \in Threads |-> "idle"]
    /\ call = [t \in Threads |-> NoCall]
    /\ wb = [t \in Threads |-> <<>>]
    /\ ret = [t \in Threads |-> "none"]
    /\ started = 0
    /\ idLog = [s \in Stores |-> <<>>]
    /\ deleted = [s \in Stores |-> FALSE]
    /\ dirFiles \in { D \in SUBSET NameUniverse : Cardinality(D) <= MaxFiles }
    /\ files_list \in Orders(ScanFiles(dirFiles))
    /\ sheet = [s \in Stores |-> IF s = "policy" THEN BatchRows(files_list) ELSE <<>>]
    /\ resolved_names = <<>>
    /\ resolved_again = <<>>
    /\ npc = "prompt"
    /\ response = <<>>
    /\ rename_results = <<>>
    /\ completed = {}
    /\ nstats = [files_renamed |-> 0, excel_rows_updated |-> 0, errors |-> 0]
    /\ update_raised = FALSE

nonSyncVars == <<uploadVars, registryVars, rowsVars, dedupVars,
                 file_locks, holder, spc, call, wb, ret, started, idLog, deleted, retryVars, startupVars, bookVars, scanVars, pipeVars, statVars>>

\* total_files_to_process == 0: run returns before the prompt
NothingToNormalize ==
    /\ npc = "prompt"
    /\ Len(files_list) = 0
    /\ npc' = "returned"
    /\ UNCHANGED <<dirFiles, files_list, resolved_names, resolved_again, sheet>>
    /\ UNCHANGED syncVars
    /\ UNCHANGED nonSyncVars

\* response = input(...).strip().lower(); anything but 'y' cancels the run
Answer ==
    /\ npc = "prompt"
    /\ Len(files_list) > 0
    /\ \E typed \in PromptAnswers :
          /\ response' = Lower(Strip(typed))
          /\ npc' = IF Lower(Strip(typed)) # <<"y">> THEN "returned" ELSE "scanned"
    /\ UNCHANGED <<dirFiles, files_list, resolved_names, resolved_again, sheet>>
    /\ UNCHANGED <<rename_results, completed, nstats, update_raised>>
    /\ UNCHANGED nonSyncVars

\* dict(rename_results): for a key given several times the last value stays
DictOf(pairs) ==
    [old \in { pairs[i][1] : i \in 1..Len(pairs) } |->
        LET last_i == CHOOSE i \in 1..Len(pairs) :
                          /\ pairs[i][1] = old
                          /\ \A j \in (i + 1)..Len(pairs) : pairs[j][1] # old
        IN  pairs[last_i][2]]

\* what the completion of a rename future adds to rename_results
RenameResult(file_path, new_filename, success) ==
    IF success THEN <<<<file_path.stem, new_filename.stem>>>> ELSE <<>>

\* process_files, step 2: the future of one file completes.  The order in
\* which the futures complete is any order.  The rename fails when the
\* target exists or Path.rename raises.
RenameFileWorker(f) ==
    /\ npc = "resolved"
    /\ f \in DOMAIN resolved_names
    /\ f \notin completed
    /\ \E renamed \in BOOLEAN :
          LET success == renamed /\ resolved_names[f] \notin dirFiles IN
          /\ dirFiles' = IF success
                         THEN (dirFiles \ {f}) \cup {resolved_names[f]}
                         ELSE dirFiles
          /\ rename_results' =
                rename_results \o RenameResult(f, resolved_names[f], success)
          /\ nstats' = IF success
                       THEN [nstats EXCEPT !.files_renamed = @ + 1]
                       ELSE [nstats EXCEPT !.errors = @ + 1]
    /\ completed' = completed \cup {f}
    /\ UNCHANGED <<files_list, resolved_names, resolved_again, npc, sheet>>
    /\ UNCHANGED <<response, update_raised>>
    /\ UNCHANGED nonSyncVars

\* process_files, step 3: one batch_update_excel_filenames call with the
\* dict of the successful renames; a call that raises returns 0
UpdateExcel ==
    /\ npc = "resolved"
    /\ completed = DOMAIN resolved_names
    /\ IF rename_results # <<>>
       THEN \E raises \in BOOLEAN :
              LET r == batch_update_excel_filenames(
                           Worksheet("policy", sheet["policy"]),
                           DictOf(rename_results))
              IN  /\ sheet' = IF raises THEN sheet
                              ELSE [sheet EXCEPT !["policy"] = Tail(r.ws)]
                  /\ nstats' = [nstats EXCEPT !.excel_rows_updated =
                                   @ + (IF raises THEN 0 ELSE r.updated_count)]
                  /\ update_raised' = raises
       ELSE UNCHANGED <<sheet, nstats, update_raised>>
    /\ npc' = "summary"
    /\ UNCHANGED <<dirFiles, files_list, resolved_names, resolved_again>>
    /\ UNCHANGED <<response, rename_results, completed>>
    /\ UNCHANGED nonSyncVars

NextSync ==
    \/ NothingToNormalize
    \/ Answer
    \/ Resolve
    \/ \E f \in NameUniverse : RenameFileWorker(f)
    \/ UpdateExcel

SpecSync == InitSync /\ [][NextSync]_vars

\* the name a file of the batch has on disk now
CurrentName(f) == IF f \in dirFiles THEN f ELSE resolved_names[f]

\* C22: when process_files has ended and the store update did not raise,
\* the row of every file of the batch holds the stem of the name the file
\* has on disk: the new stem after a rename, the old stem after a failed one.
C22_RowsInSync ==
    (npc = "summary" /\ ~update_raised) =>
        \A k \in 1..Len(files_list) :
            sheet["policy"][k].PolicyFileName = CurrentName(files_list[k]).stem

----------------------------------------------------------------------------
(* The retry loops: DocumentClassifier.classify,                            *)
(* InformationExtractor.extract, QAGenerator.generate_qa_pairs (each around *)
(* client.chat.completions.create) and FileUploader.upload_file_with_retry  *)
(* (around upload_file), all run with the same configured retry value.      *)

\* wait_time = (attempt + 1) * 2
BaseDelay == 2

\* the exception classes an external call raises, and the class hierarchy
Raised == {"Timeout", "RequestException", "OSError", "APIError"}

IsSubclass(exc, class) ==
    \/ exc = class
    \/ class = "Exception"
    \/ exc = "Timeout" /\ class = "RequestException"

\* what one attempt meets: the external call raises, or it returns an
\* answer the wrapper accepts ("good") or does not accept ("bad": an HTTP
\* error or error code, no digit 1..3, text that is no JSON, no qa_pairs)
Outcomes ==
    { [kind |-> "raise", exc |-> e] : e \in Raised }
        \cup { [kind |-> "good", exc |-> "none"], [kind |-> "bad", exc |-> "none"] }

\* mutant of ExceptClauses: only the exceptions of requests are handled
ExceptClausesOfRequests(w) == <<"Timeout", "RequestException">>

\* the except clauses around the external call of a wrapper
ExceptClauses(w) ==
    IF w = "upload_file_with_retry"
    THEN <<"Timeout", "RequestException", "Exception">>
    ELSE <<"Exception">>

Caught(w, exc) ==
    \E i \in 1..Len(ExceptClauses(w)) : IsSubclass(exc, ExceptClauses(w)[i])

\* mutant of RangeLimit: range(n + 1) in every loop
RangeLimitPlusOne(w, n) == n + 1

\* the loop is "for attempt in range(limit)": range(self.max_retries + 1) in
\* upload_file_with_retry, range(MAX_RETRIES) in the completion wrappers
RangeLimit(w, n) == IF w = "upload_file_with_retry" THEN n + 1 ELSE n

\* an entry of the history of a wrapper: a call of the operation in pass
\* attempt (and whether it raised), or a sleep of wait_time seconds
CallEvent(k, raised) == [ev |-> "call", arg |-> k, raised |-> raised]

SleepEvent(wait_time) == [ev |-> "sleep", arg |-> wait_time, raised |-> FALSE]

\* the wrappers are called, all configured with the same retry value
InitRetry ==
    /\ IdleNorm /\ IdleStore /\ IdleUpload /\ IdleRegistry /\ IdleRows
    /\ IdleDedup /\ IdleSync /\ IdleStartup /\ IdleBook /\ IdleScan /\ IdlePipe /\ IdleStat
    /\ xn \in 0..MaxConfigured
    /\ xpc = [w \in Wrappers |-> "loop"]
    /\ xattempt = [w \in Wrappers |-> 0]
    /\ xtrace = [w \in Wrappers |-> <<>>]
    /\ xvalue = [w \in Wrappers |-> "none"]

nonRetryVars == <<normVars, storeVars, uploadVars, registryVars, rowsVars,
                  dedupVars, syncVars, startupVars, bookVars, scanVars, pipeVars, statVars>>

\* mutant of SleepsAfter: the completion wrappers wait as well
SleepsAfterAny(w, k, n) == k < n

\* whether the wrapper sleeps after a failed attempt: upload_file_with_retry
\* does when attempt < self.max_retries, the completion wrappers never do
SleepsAfter(w, k, n) == w = "upload_file_with_retry" /\ k < n

\* one pass of the for loop of a wrapper, or the statement after the loop
\* when the range is used up
RetryPass(w) ==
    /\ xpc[w] = "loop"
    /\ IF xattempt[w] >= RangeLimit(w, xn)
       THEN /\ xpc' = [xpc EXCEPT ![w] = "returned"]
            /\ xvalue' = [xvalue EXCEPT ![w] = "failure"]
            /\ UNCHANGED <<xattempt, xtrace>>
       ELSE \E o \in Outcomes :
              /\ xtrace' = [xtrace EXCEPT ![w] = Append(@, CallEvent(xattempt[w], o.kind = "raise"))]
              /\ IF o.kind = "raise" /\ ~Caught(w, o.exc)
                 THEN /\ xpc' = [xpc EXCEPT ![w] = "raised"]
                      /\ UNCHANGED <<xattempt, xvalue>>
                 ELSE IF o.kind = "good"
                 THEN /\ xpc' = [xpc EXCEPT ![w] = "returned"]
                      /\ xvalue' = [xvalue EXCEPT ![w] = "success"]
                      /\ UNCHANGED xattempt
                 ELSE IF SleepsAfter(w, xattempt[w], xn)
                 THEN /\ xpc' = [xpc EXCEPT ![w] = "sleep"]
                      /\ UNCHANGED <<xattempt, xvalue>>
                 ELSE IF w \in CompletionWrappers /\ ~(xattempt[w] < xn - 1)
                 THEN /\ xpc' = [xpc EXCEPT ![w] = "returned"]
                      /\ xvalue' = [xvalue EXCEPT ![w] = "failure"]
                      /\ UNCHANGED xattempt
                 ELSE /\ xattempt' = [xattempt EXCEPT ![w] = @ + 1]
                      /\ UNCHANGED <<xpc, xvalue>>
    /\ UNCHANGED xn
    /\ UNCHANGED nonRetryVars

\* time.sleep(wait_time), then the next pass
RetrySleep(w) ==
    /\ xpc[w] = "sleep"
    /\ xtrace' = [xtrace EXCEPT ![w] =
                     Append(@, SleepEvent((xattempt[w] + 1) * BaseDelay))]
    /\ xattempt' = [xattempt EXCEPT ![w] = @ + 1]
    /\ xpc' = [xpc EXCEPT ![w] = "loop"]
    /\ UNCHANGED <<xn, xvalue>>
    /\ UNCHANGED nonRetryVars

NextRetry ==
    \/ \E w \in Wrappers : RetryPass(w)
    \/ \E w \in Wrappers : RetrySleep(w)

SpecRetry == InitRetry /\ [][NextRetry]_vars

\* the number of times the wrapper has invoked its operation
Invocations(w) ==
    Cardinality({ i \in 1..Len(xtrace[w]) : xtrace[w][i].ev = "call" })

\* every attempt of the wrapper failed and the wrapper has returned
Exhausted(w) == xpc[w] = "returned" /\ xvalue[w] = "failure"

\* C23: wrappers configured with the same retry value that have each
\* returned after every attempt failed have invoked their operations the
\* same number of times.
C23_SameCap ==
    \A v, w \in Wrappers :
        (Exhausted(v) /\ Exhausted(w)) => Invocations(v) = Invocations(w)

\* C24: no wrapper lets an exception of its external call escape; a wrapper
\* that has ended has returned success or failure.
C24_NeverRaises ==
    \A w \in Wrappers :
        /\ xpc[w] # "raised"
        /\ xpc[w] = "returned" => xvalue[w] \in {"success", "failure"}

\* upload_file_with_retry and a completion wrapper have each returned
\* failure after their operation raised in every attempt, and another
\* completion wrapper has returned success after a raise
C24_Witness ==
    /\ xn >= 2
    /\ \E w \in CompletionWrappers :
          /\ Exhausted(w)
          /\ \A i \in 1..Len(xtrace[w]) : xtrace[w][i].raised
    /\ Exhausted("upload_file_with_retry")
    /\ \A i \in 1..Len(xtrace["upload_file_with_retry"]) :
          LET e == xtrace["upload_file_with_retry"][i] IN e.ev = "call" => e.raised
    /\ \E w \in CompletionWrappers :
          /\ xvalue[w] = "success"
          /\ xtrace[w][1].raised

\* the sleeps of a wrapper, in order
Sleeps(w) ==
    LET IsSleep(e) == e.ev = "sleep"
        tr == SelectSeq(xtrace[w], IsSleep)
    IN  [i \in 1..Len(tr) |-> tr[i].arg]

\* C25: upload_file_with_retry starts with a call, sleeps k * 2 seconds
\* after its k-th failed attempt and before attempt k + 1, and does not
\* sleep after its last attempt (with retry value 3 and every attempt
\* failing it sleeps 2, 4 and 6 seconds); the completion wrappers never
\* sleep.
C25_LinearBackoff ==
    /\ LET tr == xtrace["upload_file_with_retry"] IN
          /\ \A i \in 1..Len(tr) :
                IF i % 2 = 1
                THEN tr[i].ev = "call" /\ tr[i].arg = (i - 1) \div 2
                ELSE tr[i].ev = "sleep" /\ tr[i].arg = (i \div 2) * 2
          /\ xpc["upload_file_with_retry"] = "returned" =>
                tr # <<>> /\ tr[Len(tr)].ev = "call"
          /\ xpc["upload_file_with_retry"] = "sleep" =>
                Invocations("upload_file_with_retry") <= xn
          /\ Exhausted("upload_file_with_retry") =>
                /\ Len(Sleeps("upload_file_with_retry")) = xn
                /\ xn = 3 => Sleeps("upload_file_with_retry") = <<2, 4, 6>>
    /\ \A w \in CompletionWrappers : Sleeps(w) = <<>>

\* with retry value 3 the upload wrapper and a completion wrapper have used
\* up their attempts
C25_Witness ==
    /\ xn = 3
    /\ Exhausted("upload_file_with_retry")
    /\ Sleeps("upload_file_with_retry") = <<2, 4, 6>>
    /\ \E w \in CompletionWrappers : Exhausted(w) /\ Invocations(w) > 1

----------------------------------------------------------------------------
(* C26: the summary of the upload run *)

\* C26: when the upload run prints its summary, failed_files has as many
\* entries as the failed counter says, one for each unit that failed and
\* none for any other, each with the error message of the unit's last
\* attempt.
C26_FailedListMatchesCounter ==
    (upc = "returned" /\ files # {}) =>
        /\ Len(stats.failed_files) = stats.failed
        /\ \A u \in files :
              Cardinality({ i \in 1..Len(stats.failed_files) :
                              stats.failed_files[i].file = u })
                  = IF result[u] = "False" THEN 1 ELSE 0
        /\ \A i \in 1..Len(stats.failed_files) :
              /\ stats.failed_files[i].error # ""
              /\ stats.failed_files[i].error =
                    upload_file(last[stats.failed_files[i].file])[2]

\* the summary of a run in which one unit failed and another one succeeded
C26_Witness ==
    /\ upc = "returned"
    /\ stats.failed = 1
    /\ stats.success = 1
    /\ Len(stats.failed_files) = 1

----------------------------------------------------------------------------
(* The start of the programs main.py, generate_qa.py and upload_files.py:   *)
(* the configuration is validated, the program looks for what it needs and  *)
(* starts its work units.                                                   *)

Programs == {"main", "generate_qa", "upload_files"}

\* the settings: whether the text settings are set and the directories
\* exist, and the values of the worker and retry settings
Settings ==
    [api_key : BOOLEAN, data_dir : BOOLEAN, template_dir : BOOLEAN,
     url : BOOLEAN, token : BOOLEAN, upload_dir : BOOLEAN,
     max_workers : {0, 1}, max_retries : {-1, 0}]

\* the settings one program reads; the other ones are as they should be
SettingsOf(p) ==
    { c \in Settings :
        IF p = "upload_files"
        THEN c.api_key /\ c.data_dir /\ c.template_dir
        ELSE c.url /\ c.token /\ c.upload_dir }

\* antiword installed; the policy store written by main.py is there
Machines == [antiword : BOOLEAN, policy_excel : BOOLEAN]

\* errors.append(name) when the check of a setting fails
ErrorIf(failed, name) == IF failed THEN {name} ELSE {}

\* the errors list of FileUploader._validate_config (upload_files.py) and
\* of config.validate_config (main.py, generate_qa.py)
ConfigErrors(p, c) ==
    IF p = "upload_files"
    THEN ErrorIf(~c.url, "UPLOAD_URL")
            \cup ErrorIf(~c.token, "UPLOAD_TOKEN")
            \cup ErrorIf(~c.upload_dir, "UPLOAD_DIR")
            \cup ErrorIf(c.max_workers < 1, "UPLOAD_MAX_WORKERS")
            \cup ErrorIf(c.max_retries < 0, "UPLOAD_MAX_RETRIES")
    ELSE ErrorIf(~c.api_key, "OPENAI_API_KEY")
            \cup ErrorIf(~c.data_dir, "DATA_DIR")
            \cup ErrorIf(~c.template_dir, "TEMPLATE_DIR")

InitStartup ==
    /\ IdleNorm /\ IdleStore /\ IdleUpload /\ IdleRegistry /\ IdleRows
    /\ IdleDedup /\ IdleSync /\ IdleRetry /\ IdleBook /\ IdleScan /\ IdlePipe /\ IdleStat
    /\ prog \in Programs
    /\ cfg \in SettingsOf(prog)
    /\ env \in Machines
    /\ ppc = "start"
    /\ exit_status = -1
    /\ work_started = FALSE

nonStartupVars == <<normVars, storeVars, uploadVars, registryVars, rowsVars,
                    dedupVars, syncVars, retryVars, bookVars, scanVars, pipeVars, statVars>>

\* the validation: validate_config() at the top of run / main inside
\* "try ... except Exception: sys.exit(1)" (main.py, generate_qa.py);
\* FileUploader.__init__ calls _validate_config and main() lets the
\* ValueError go: the interpreter ends with status 1
ValidateConfig ==
    /\ ppc = "start"
    /\ IF ConfigErrors(prog, cfg) # {}
       THEN ppc' = "exited" /\ exit_status' = 1
       ELSE ppc' = "validated" /\ UNCHANGED exit_status
    /\ UNCHANGED <<prog, cfg, env, work_started>>
    /\ UNCHANGED nonStartupVars

\* what follows the validation and precedes the work units:
\* main.py: DocumentReader.check_dependencies() raises RuntimeError when
\*   antiword is not installed, run catches it: sys.exit(1);
\* generate_qa.py: the policy store does not exist: sys.exit(1);
\*   ThreadPoolExecutor(max_workers=MAX_WORKERS) raises ValueError for
\*   MAX_WORKERS < 1, main catches it: sys.exit(1)
Prepare ==
    /\ ppc = "validated"
    /\ IF \/ prog = "main" /\ ~env.antiword
          \/ prog = "generate_qa" /\ ~env.policy_excel
          \/ prog = "generate_qa" /\ cfg.max_workers < 1
       THEN ppc' = "exited" /\ exit_status' = 1
       ELSE ppc' = "ready" /\ UNCHANGED exit_status
    /\ UNCHANGED <<prog, cfg, env, work_started>>
    /\ UNCHANGED nonStartupVars

\* the first work unit is started (process_file, process_policy,
\* upload_file_with_retry)
StartWork ==
    /\ ppc = "ready"
    /\ ppc' = "working"
    /\ work_started' = TRUE
    /\ UNCHANGED <<prog, cfg, env, exit_status>>
    /\ UNCHANGED nonStartupVars

\* nothing to do (no file, no policy record), or all units done: the
\* program returns from main
EndOfMain ==
    /\ ppc \in {"ready", "working"}
    /\ ppc' = "exited"
    /\ exit_status' = 0
    /\ UNCHANGED <<prog, cfg, env, work_started>>
    /\ UNCHANGED nonStartupVars

NextStartup ==
    \/ ValidateConfig
    \/ Prepare
    \/ StartWork
    \/ EndOfMain

SpecStartup == InitStartup /\ [][NextStartup]_vars

\* C27: a program whose configuration validation fails starts no work unit
\* and ends with a non-zero exit status, and a program ends with a non-zero
\* exit status only when its configuration validation failed.
C27_OnlyConfigErrorTerminates ==
    /\ ConfigErrors(prog, cfg) # {} => ~work_started
    /\ (ConfigErrors(prog, cfg) # {} /\ ppc = "exited") => exit_status # 0
    /\ (ppc = "exited" /\ exit_status # 0) => ConfigErrors(prog, cfg) # {}

----------------------------------------------------------------------------
(* The confirmation prompt.  normalize_filenames.py and deduplicate.py read *)
(* an answer with input() before they rename or delete.  upload_files.py    *)
(* has no input() call: in its run response stays what it is before a      *)
(* prompt, the empty answer.                                                *)

\* the files upload_file_with_retry has deleted from the upload directory
UnlinkedFiles == files \ local

\* C28: a file of the upload directory is deleted only in a run in which
\* 'y' was answered at a confirmation prompt.
C28_DestructiveOnlyAfterYes ==
    UnlinkedFiles # {} => response = <<"y">>

----------------------------------------------------------------------------
(* A store operation that fails, in the run of normalize_filenames.py.      *)

\* the rename futures that ended without a rename: each one added 1 to
\* stats['errors']
FailedRenames == Cardinality(completed) - nstats.files_renamed

\* C29: when process_files has ended and its batch_update_excel_filenames
\* call raised, the run went on to the summary and stats['errors'] counts
\* the failed store operation besides the failed renames.
C29_StoreFailureCounted ==
    (npc = "summary" /\ update_raised) =>
        nstats.errors = FailedRenames + 1

----------------------------------------------------------------------------
(* The store locks and the completion-service calls of main.py and          *)
(* generate_qa.py.                                                          *)

\* the stores whose lock thread t holds
LocksHeldBy(t) == { s \in Stores : holder[s] = t }

\* C30: a thread that is in a completion-service call holds no store lock,
\* and a thread that holds a store lock holds only the lock of the store of
\* its save call and is in the load, modify and persist steps of that call.
C30_NoServiceCallUnderStoreLock ==
    \A t \in Threads :
        /\ spc[t] = "completion" => LocksHeldBy(t) = {}
        /\ LocksHeldBy(t) # {} =>
              /\ spc[t] \in {"load", "save", "release"}
              /\ LocksHeldBy(t) = {call[t].store}

\* a thread is in a completion-service call while another thread holds the
\* lock of a store that already has a saved row, between load and persist
C30_Witness ==
    \E t, u \in Threads :
        /\ t # u
        /\ spc[t] = "completion"
        /\ spc[u] = "save"
        /\ LocksHeldBy(u) = {call[u].store}
        /\ idLog[call[u].store] # <<>>

----------------------------------------------------------------------------
(* src/data_storage.py: get_output_file and save_data on the YS sheet of    *)
(* one category store.  The sheet is the sequence of its rows from row 1;   *)
(* a row is a blank row, a header row or a data row.                        *)

MaxSaves == 3        \* save_data calls in one run of this part

nonBookVars == <<normVars, storeVars, uploadVars, registryVars, rowsVars,
                 dedupVars, syncVars, retryVars, startupVars, scanVars, pipeVars, statVars>>

\* a row none of whose cells has a value
BlankRow == [kind |-> "blank", ID |-> 0, PolicyFileName |-> <<>>]

\* the header row of a template, and the list _get_headers_for_type returns:
\* texts in every cell, "ID" first
TypeHeaders(doc_type) == [kind |-> "header", ID |-> 0, PolicyFileName |-> <<>>]

\* get_output_file creates a missing output file: a copy of the template
\* (a header row), or Workbook() with an empty sheet named YS
get_output_file(doc_type, template_exists) ==
    IF template_exists THEN <<TypeHeaders(doc_type)>> ELSE <<>>

\* Worksheet.max_row: 1 for a sheet without cells, else the last row that
\* has a cell
max_row(ws) == IF Len(ws) = 0 THEN 1 ELSE Len(ws)

\* "for cell in ws[1]": the cells of row 1 are read, and created when the
\* row has none; a created cell makes row 1 the current row of the sheet
ReadRow1(ws) == IF Len(ws) = 0 THEN <<BlankRow>> ELSE ws

\* Worksheet.append: the row is written after the current row, which is the
\* last row that has a cell
ws_append(ws, row) == ws \o <<row>>

\* the largest int of the ID column in rows 2 .. max_row, 0 when none
max_id(ws) ==
    SetMax({ ws[i].ID : i \in { k \in 2..max_row(ws) :
                                  k <= Len(ws) /\ ws[k].kind = "data" } })

\* save_data between load_workbook and wb.save: the headers are read from
\* row 1 and appended when row 1 has no text; the data row gets the next ID
\* and is appended
save_data(ws, doc_type, fn) ==
    LET read == ReadRow1(ws)
        headed == IF read[1].kind = "blank"
                  THEN ws_append(read, TypeHeaders(doc_type))
                  ELSE read
    IN  ws_append(headed, [kind |-> "data", ID |-> max_id(headed) + 1,
                           PolicyFileName |-> fn])

\* the output directory is empty; the template of the doc type is there or
\* is not
InitBook ==
    /\ IdleNorm /\ IdleStore /\ IdleUpload /\ IdleRegistry /\ IdleRows
    /\ IdleDedup /\ IdleSync /\ IdleRetry /\ IdleStartup /\ IdleScan /\ IdlePipe /\ IdleStat
    /\ book_store \in DocTypes
    /\ book_template \in BOOLEAN
    /\ book_exists = FALSE
    /\ book = <<>>
    /\ book_prev = <<>>
    /\ book_ret = "none"
    /\ book_saves = 0

\* one save_data(data, doc_type) call under the lock of the store: the
\* output file is created when it is missing, loaded, changed and saved;
\* when load_workbook or wb.save raises the file stays as it was found
SaveData ==
    /\ book_saves < MaxSaves
    /\ \E fn \in FileStems, raises \in BOOLEAN :
          LET found == IF book_exists THEN book
                       ELSE get_output_file(book_store, book_template)
          IN  /\ book_prev' = found
              /\ book' = IF raises THEN found
                         ELSE save_data(found, book_store, fn)
              /\ book_ret' = IF raises THEN "False" ELSE "True"
    /\ book_exists' = TRUE
    /\ book_saves' = book_saves + 1
    /\ UNCHANGED <<book_store, book_template>>
    /\ UNCHANGED nonBookVars

NextBook == SaveData

SpecBook == InitBook /\ [][NextBook]_vars

\* C31: after a save_data call that returned True, row 1 of the sheet is the
\* header row, and when the sheet the call found had its header in row 1
\* the sheet is the sheet it found with exactly one data row added after
\* the last row.
C31_AppendKeepsHeaderAndRows ==
    book_ret = "True" =>
        /\ book[1].kind = "header"
        /\ (Len(book_prev) > 0 /\ book_prev[1].kind = "header") =>
              /\ Len(book) = Len(book_prev) + 1
              /\ SubSeq(book, 1, Len(book_prev)) = book_prev
              /\ book[Len(book)].kind = "data"

----------------------------------------------------------------------------
(* Termination of the upload run *)

\* C32: under fair scheduling, with every upload request returning, the
\* run produces its summary and returns; every unit of the set computed by
\* the scan has then ended as success or failure after at most
\* max_retries + 1 attempts, and no unit is pending or running.
C32_RunTerminates ==
    <>(/\ upc = "returned"
       /\ \A u \in files :
             /\ ustate[u] = "done"
             /\ result[u] \in {"True", "False"}
             /\ calls[u] \in 1..(MaxRetries + 1)
             /\ drained[u] = 1)

\* the run has returned after a unit that succeeded at its first attempt
\* and a unit that failed all its attempts
C32_Witness ==
    /\ upc = "returned"
    /\ \E u, v \in files :
          /\ result[u] = "True" /\ calls[u] = 1
          /\ result[v] = "False" /\ calls[v] = MaxRetries + 1

----------------------------------------------------------------------------
(* save_qa_pairs: the rows one call adds to the question-answer store *)

\* C33: a save_qa_pairs call with n pairs on a store no row was deleted
\* from adds n rows after the rows it loaded, with the XH values max_xh + 1
\* .. max_xh + n, and when it returns True these rows are the persisted
\* store.
C33_OneRowPerPair ==
    \A t \in Threads :
        (call[t].store = QAStore /\ ~deleted[QAStore]) =>
            /\ spc[t] = "save" =>
                  /\ Len(wb[t]) = Len(sheet[QAStore]) + call[t].n
                  /\ \A i \in 1..call[t].n :
                        wb[t][Len(sheet[QAStore]) + i].XH =
                            MaxId(QAStore, sheet[QAStore]) + i
            /\ (spc[t] = "release" /\ ret[t] = "True") => sheet[QAStore] = wb[t]

----------------------------------------------------------------------------
(* deduplicate.py: run.  scan_files, find_duplicates, the prompt, then      *)
(* process_duplicates as modelled above.                                    *)

MaxScanned == 3      \* files in the category directories at the start
MaxMtime == 2        \* distinct modification times

Hashes == {"h1", "h2"}

\* the files of the list whose hash is h, in the order of the list:
\* hash_to_files[h]
HashToFiles(order, hash, h) == SelectSeq(order, LAMBDA f : hash[f] = h)

\* the keys of hash_to_files in insertion order
RECURSIVE HashKeys(_, _)
HashKeys(order, hash) ==
    IF order = <<>> THEN <<>>
    ELSE LET before == HashKeys(SubSeq(order, 1, Len(order) - 1), hash)
             h == hash[order[Len(order)]]
         IN  IF \E k \in 1..Len(before) : before[k] = h
             THEN before ELSE Append(before, h)

\* mutant of SortByMtime: the list is left in scan order
Unsorted(file_list, mtime) == file_list

\* file_list.sort(key=lambda p: p.stat().st_mtime): a stable sort
RECURSIVE SortByMtime(_, _)
SortByMtime(file_list, mtime) ==
    IF file_list = <<>> THEN <<>>
    ELSE LET sorted == SortByMtime(SubSeq(file_list, 1, Len(file_list) - 1), mtime)
             f == file_list[Len(file_list)]
             n == Cardinality({ k \in 1..Len(sorted) : mtime[sorted[k]] <= mtime[f] })
         IN  SubSeq(sorted, 1, n) \o <<f>> \o SubSeq(sorted, n + 1, Len(sorted))

\* find_duplicates: for every hash with more than one file, in the order
\* of the dict, the first file of the sorted list is kept and the other
\* ones are to delete
RECURSIVE DuplicatesOf(_, _, _, _)
DuplicatesOf(keys, order, hash, mtime) ==
    IF keys = <<>> THEN <<>>
    ELSE LET file_list == SortByMtime(HashToFiles(order, hash, Head(keys)), mtime)
             rest == DuplicatesOf(Tail(keys), order, hash, mtime)
         IN  IF Len(file_list) > 1
             THEN << <<Head(file_list), Tail(file_list)>> >> \o rest
             ELSE rest

find_duplicates(order, hash, mtime) ==
    DuplicatesOf(HashKeys(order, hash), order, hash, mtime)

\* scan_files goes through the category directories in the order of
\* CATEGORY_TO_EXCEL and through a directory in the order of iterdir()
ScanOrders(F) ==
    { o \in Orders(F) :
        \A i, j \in 1..Len(o) : (o[i].cat = "doc" /\ o[j].cat = "policy") => i < j }

\* the category directories hold up to MaxScanned document files; some of
\* them have a row in the store of their category, and the policy rows
\* have question-answer rows or have none
InitFind ==
    /\ IdleNorm /\ IdleUpload /\ IdleRegistry /\ IdleRows /\ IdleRetry
    /\ IdleStartup /\ IdleBook /\ IdlePipe /\ IdleStat
    /\ file_locks = {}
    /\ holder = [s \in Stores |-> 0]
    /\ spc = [t \in Threads |-> "idle"]
    /\ call = [t \in Threads |-> NoCall]
    /\ wb = [t \in Threads |-> <<>>]
    /\ ret = [t \in Threads |-> "none"]
    /\ started = 0
    /\ idLog = [s \in Stores |-> <<>>]
    /\ deleted = [s \in Stores |-> FALSE]
    /\ dfiles \in { F \in SUBSET DedupFiles : Cardinality(F) \in 1..MaxScanned }
    /\ scan_hash \in [dfiles -> Hashes]
    /\ scan_mtime \in [dfiles -> 1..MaxMtime]
    /\ scan_order \in ScanOrders(dfiles)
    /\ had_row \in SUBSET dfiles
    /\ \E Q \in { {}, 1..Len(CategoryRows(had_row, "policy")) } :
          sheet = [s \in Stores |->
                     IF s = QAStore THEN QARows(Q) ELSE CategoryRows(had_row, s)]
    /\ duplicates = <<>>
    /\ dpc = "scan"
    /\ gi = 0
    /\ di = 0
    /\ policy_ids_to_delete = {}
    /\ dstats = [files_deleted |-> 0, excel_rows_deleted |-> 0, qa_rows_deleted |-> 0]
    /\ removed_ids = {}
    /\ faulted = FALSE
    /\ response = <<>>
    /\ rename_results = <<>>
    /\ completed = {}
    /\ nstats = [files_renamed |-> 0, excel_rows_updated |-> 0, errors |-> 0]
    /\ update_raised = FALSE

\* run, steps 1 and 2: scan_files and find_duplicates; without a group of
\* duplicates run returns
FindDuplicates ==
    /\ dpc = "scan"
    /\ duplicates' = find_duplicates(scan_order, scan_hash, scan_mtime)
    /\ dpc' = IF duplicates' = <<>> THEN "returned" ELSE "confirm"
    /\ UNCHANGED <<sheet, gi, di, policy_ids_to_delete, dstats, dfiles,
                   removed_ids, faulted>>
    /\ UNCHANGED nonDedupVars

\* run, step 3: response = input(...).strip().lower(); anything but 'y'
\* cancels the run, 'y' starts process_duplicates
ConfirmDelete ==
    /\ dpc = "confirm"
    /\ \E typed \in PromptAnswers :
          /\ response' = Lower(Strip(typed))
          /\ IF Lower(Strip(typed)) # <<"y">>
             THEN dpc' = "returned" /\ UNCHANGED <<gi, di>>
             ELSE dpc' = "file" /\ gi' = 1 /\ di' = 1
    /\ UNCHANGED <<sheet, duplicates, policy_ids_to_delete, dstats, dfiles,
                   removed_ids, faulted>>
    /\ UNCHANGED <<rename_results, completed, nstats, update_raised>>
    /\ UNCHANGED <<normVars, uploadVars, registryVars, rowsVars,
                   file_locks, holder, spc, call, wb, ret, started, idLog, deleted,
                   retryVars, startupVars, bookVars, scanVars,
                   pipeVars, statVars>>

NextFind ==
    \/ FindDuplicates
    \/ ConfirmDelete
    \/ CollectPolicyIds
    \/ DeleteExcelRow
    \/ DeleteFile
    \/ CascadeQA

SpecFind == InitFind /\ [][NextFind]_vars

\* the files that were scanned with hash h
HashGroup(h) == { f \in DOMAIN scan_hash : scan_hash[f] = h }

\* C34: when process_duplicates has ended and every deletion succeeded, of
\* every group of scanned files with the same hash exactly one file is on
\* disk, a file of the group with the earliest modification time, and a
\* file whose hash is unique is on disk at every moment.
C34_EarliestOfGroupRemains ==
    \A h \in Hashes :
        IF Cardinality(HashGroup(h)) > 1
        THEN (dpc = "done" /\ dstats.files_deleted = DeleteCount(duplicates)) =>
                \E k \in HashGroup(h) :
                    /\ HashGroup(h) \cap dfiles = {k}
                    /\ \A g \in HashGroup(h) : scan_mtime[k] <= scan_mtime[g]
        ELSE HashGroup(h) \subseteq dfiles

\* process_duplicates has ended with every deletion done; a group of three
\* files was scanned with its earliest file last
C34_Witness ==
    /\ dpc = "done"
    /\ dstats.files_deleted = 2
    /\ \E h \in Hashes :
          /\ Cardinality(HashGroup(h)) = 3
          /\ \A g \in HashGroup(h) \ {scan_order[3]} :
                scan_mtime[scan_order[3]] < scan_mtime[g]

\* the files find_duplicates put on a delete list
ToDelete(dups) ==
    UNION { { dups[g][2][d] : d \in 1..Len(dups[g][2]) } : g \in 1..Len(dups) }

\* the scanned files the run keeps
KeptFiles == (DOMAIN scan_hash) \ ToDelete(duplicates)

\* C35: when process_duplicates has ended without a raise, every kept file
\* that had a row in the store of its category at the start of the run has
\* a row with its stem in that store.
C35_RowsOfKeptFilesStay ==
    (dpc = "done" /\ ~faulted) =>
        \A f \in KeptFiles \cap had_row :
            \E k \in 1..Len(sheet[f.cat]) :
                sheet[f.cat][k].PolicyFileName = f.stem

----------------------------------------------------------------------------
(* The parallel rename workers of normalize_filenames.py *)

\* the files of the batch whose rename future has not completed
PendingRenames == (DOMAIN resolved_names) \ completed

----------------------------------------------------------------------------
(* normalize_filename and needs_normalization *)

\* the names the resolver gave to the files of the batch
ResolvedNames == { resolved_names[f] : f \in DOMAIN resolved_names }

\* C37: for every name of the directory and every name the resolver
\* produced, needs_normalization holds exactly when normalize_filename
\* changes the name, normalize_filename applied twice gives what it gives
\* applied once, and no name the normalizer or the resolver produced needs
\* normalization.
C37_NormalizeIdempotent ==
    /\ \A f \in dirFiles \cup ResolvedNames :
          /\ needs_normalization(f) <=> (normalize_filename(f) # f)
          /\ normalize_filename(normalize_filename(f)) = normalize_filename(f)
          /\ ~needs_normalization(normalize_filename(f))
    /\ \A g \in ResolvedNames : ~needs_normalization(g)

\* the resolver has named a file with parentheses, a file with a run of
\* white space got a suffixed name, and a file of the directory needed no
\* normalization
C37_Witness ==
    /\ npc = "resolved"
    /\ \E f \in DOMAIN resolved_names : \E i \in 1..Len(f.stem) : f.stem[i] = "("
    /\ \E f \in DOMAIN resolved_names :
          /\ \E i \in 1..Len(f.stem) : f.stem[i] \in Whitespace
          /\ resolved_names[f] # normalize_filename(f)
    /\ \E g \in dirFiles : ~needs_normalization(g)

----------------------------------------------------------------------------
(* main.py: _process_files_in_thread and process_file.  The processing      *)
(* thread takes the scanned files one after the other; process_file reads,  *)
(* classifies, extracts and saves.                                          *)

MaxDocs == 2         \* files scan_documents returned

Docs == 1..MaxDocs

nonPipeVars == <<normVars, uploadVars, registryVars, rowsVars, dedupVars,
                 syncVars, retryVars, startupVars, bookVars, scanVars, statVars>>

\* the steps of process_file in the order of its statements
Steps == <<"read", "classify", "extract", "save">>

\* the stores are as created; nothing has been processed
InitPipe ==
    /\ IdleNorm /\ IdleStore /\ IdleUpload /\ IdleRegistry /\ IdleRows
    /\ IdleDedup /\ IdleSync /\ IdleRetry /\ IdleStartup /\ IdleBook /\ IdleScan /\ IdleStat
    /\ pcur = 1
    /\ pstage = "read"
    /\ \E names \in [Docs -> FileStems] :
          punits = [u \in Docs |->
                      [fn |-> names[u], doc_type |-> "none", result |-> "none",
                       steps |-> <<>>, failed_at |-> "none",
                       before |-> sheet, after |-> sheet]]

\* the except branch of process_file: the error is recorded, return False;
\* the thread goes on with the next file
Failed(u, step) ==
    [punits EXCEPT ![u].result = "False",
                   ![u].failed_at = step,
                   ![u].steps = Append(@, step),
                   ![u].after = sheet]

\* the thread enters process_file for the next file of the list
NextFile(units, stores) ==
    IF pcur < MaxDocs
    THEN /\ pcur' = pcur + 1
         /\ pstage' = "read"
         /\ punits' = [units EXCEPT ![pcur + 1].before = stores]
    ELSE /\ pcur' = MaxDocs + 1
         /\ pstage' = "done"
         /\ punits' = units

\* step 1: read_document; no content or an exception: the file has failed
ReadDocument ==
    /\ pstage = "read"
    /\ \E content \in BOOLEAN :
          IF content
          THEN /\ punits' = [punits EXCEPT ![pcur].steps = Append(@, "read")]
               /\ pstage' = "classify"
               /\ UNCHANGED pcur
          ELSE NextFile(Failed(pcur, "read"), sheet)
    /\ UNCHANGED storeVars
    /\ UNCHANGED nonPipeVars

\* step 2: classify; None (the retries are used up): the file has failed
ClassifyDocument ==
    /\ pstage = "classify"
    /\ \E doc_type \in DocTypes \cup {"none"} :
          IF doc_type # "none"
          THEN /\ punits' = [punits EXCEPT ![pcur].steps = Append(@, "classify"),
                                           ![pcur].doc_type = doc_type]
               /\ pstage' = "extract"
               /\ UNCHANGED pcur
          ELSE NextFile(Failed(pcur, "classify"), sheet)
    /\ UNCHANGED storeVars
    /\ UNCHANGED nonPipeVars

\* step 3: extract and clean_data; None: the file has failed
ExtractData ==
    /\ pstage = "extract"
    /\ \E data \in BOOLEAN :
          IF data
          THEN /\ punits' = [punits EXCEPT ![pcur].steps = Append(@, "extract")]
               /\ pstage' = "save"
               /\ UNCHANGED pcur
          ELSE NextFile(Failed(pcur, "extract"), sheet)
    /\ UNCHANGED storeVars
    /\ UNCHANGED nonPipeVars

\* mutant of Saved: the value save_data returned is not looked at
SavedAlways(success) == TRUE

\* "if not success: raise ValueError": the file has failed unless save_data
\* returned True
Saved(success) == success

\* step 4: save_data(data, doc_type) appends the row of the file to the
\* store of doc_type, or fails and leaves the store as it is; then the
\* result is shown, and an exception of the display after a save makes
\* process_file return False as well
SaveStep ==
    /\ pstage = "save"
    /\ \E success \in BOOLEAN, shown \in BOOLEAN :
          LET d == punits[pcur].doc_type
              c == [store |-> d, fn |-> punits[pcur].fn]
              rows == IF success THEN sheet[d] \o AppendedRows(sheet[d], c)
                      ELSE sheet[d]
              ended == [punits EXCEPT
                          ![pcur].steps = Append(@, "save"),
                          ![pcur].result =
                              IF Saved(success) /\ shown THEN "True" ELSE "False",
                          ![pcur].failed_at =
                              IF Saved(success) /\ shown THEN "none" ELSE "save",
                          ![pcur].after = [sheet EXCEPT ![d] = rows]]
          IN  /\ sheet' = [sheet EXCEPT ![d] = rows]
              /\ NextFile(ended, [sheet EXCEPT ![d] = rows])
    /\ UNCHANGED <<file_locks, holder, spc, call, wb, ret, started, idLog, deleted>>
    /\ UNCHANGED nonPipeVars

NextPipe ==
    \/ ReadDocument
    \/ ClassifyDocument
    \/ ExtractData
    \/ SaveStep

SpecPipe == InitPipe /\ [][NextPipe]_vars

\* the steps of a file are the first ones of read, classify, extract, save
InOrder(steps) ==
    /\ Len(steps) <= Len(Steps)
    /\ \A i \in 1..Len(steps) : steps[i] = Steps[i]

----------------------------------------------------------------------------
(* The locks a thread takes: _locks_lock and the lock of a store in         *)
(* save_data, stats_lock at an update of the run statistics.                *)

nonStatVars == <<normVars, storeVars, uploadVars, rowsVars, dedupVars, syncVars,
                 retryVars, startupVars, bookVars, scanVars, pipeVars>>

InitLocks ==
    /\ IdleNorm /\ IdleStore /\ IdleUpload /\ IdleRegistry /\ IdleRows
    /\ IdleDedup /\ IdleSync /\ IdleRetry /\ IdleStartup /\ IdleBook /\ IdleScan
    /\ IdlePipe
    /\ stats_lock = 0
    /\ stpc = [t \in Threads |-> "idle"]
    /\ supdates = 0

\* mutant of OutsideSaveData: the statistics are updated from inside
\* save_data as well
InsideOrOutsideSaveData(t) == TRUE

\* the statements that update the statistics are not part of save_data: a
\* thread that reaches one is not inside a save_data call
OutsideSaveData(t) == rpc[t] = "idle"

\* a thread reaches "with stats_lock:"
StatsCall(t) ==
    /\ stpc[t] = "idle"
    /\ OutsideSaveData(t)
    /\ supdates < MaxCalls
    /\ stpc' = [stpc EXCEPT ![t] = "enter"]
    /\ supdates' = supdates + 1
    /\ UNCHANGED stats_lock
    /\ UNCHANGED registryVars
    /\ UNCHANGED nonStatVars

\* "with stats_lock:" is entered
EnterStatsLock(t) ==
    /\ stpc[t] = "enter"
    /\ stats_lock = 0
    /\ stats_lock' = t
    /\ stpc' = [stpc EXCEPT ![t] = "update"]
    /\ UNCHANGED supdates
    /\ UNCHANGED registryVars
    /\ UNCHANGED nonStatVars

\* the counters are updated (the block calls nothing but append and print)
\* and the with block is left
LeaveStatsLock(t) ==
    /\ stpc[t] = "update"
    /\ stats_lock' = 0
    /\ stpc' = [stpc EXCEPT ![t] = "idle"]
    /\ UNCHANGED supdates
    /\ UNCHANGED registryVars
    /\ UNCHANGED nonStatVars

\* a thread calls save_data; the with blocks of stats_lock contain no such
\* call
SaveDataCall(t) ==
    /\ stpc[t] = "idle"
    /\ RegCall(t)

\* the steps of thread t
ThreadStep(t) ==
    \/ SaveDataCall(t)
    \/ EnterLocksLock(t)
    \/ CheckKey(t)
    \/ CreateLock(t)
    \/ ReturnLock(t)
    \/ AcquireFileLock(t)
    \/ ReleaseFileLock(t)
    \/ StatsCall(t)
    \/ EnterStatsLock(t)
    \/ LeaveStatsLock(t)

NextLocks ==
    \/ \E t \in Threads : SaveDataCall(t)
    \/ \E t \in Threads : EnterLocksLock(t)
    \/ \E t \in Threads : CheckKey(t)
    \/ \E t \in Threads : CreateLock(t)
    \/ \E t \in Threads : ReturnLock(t)
    \/ \E t \in Threads : AcquireFileLock(t)
    \/ \E t \in Threads : ReleaseFileLock(t)
    \/ \E t \in Threads : StatsCall(t)
    \/ \E t \in Threads : EnterStatsLock(t)
    \/ \E t \in Threads : LeaveStatsLock(t)

SpecLocks == InitLocks /\ [][NextLocks]_vars

\* every thread that can make a step makes one in the end
FairSpecLocks == SpecLocks /\ \A t \in Threads : WF_vars(ThreadStep(t))

\* the locks thread t holds
LocksOfThread(t) ==
    (IF locks_lock = t THEN {"_locks_lock"} ELSE {})
        \cup (IF stats_lock = t THEN {"stats_lock"} ELSE {})
        \cup { i \in 1..Len(lock_objs) : lock_objs[i].owner = t }

\* thread t is at the entry of a with block
WaitsForLock(t) ==
    \/ rpc[t] \in {"enter", "acquire"}
    \/ stpc[t] = "enter"

\* thread t waits for a lock that another thread holds
Blocked(t) ==
    \/ rpc[t] = "enter" /\ locks_lock # 0
    \/ rpc[t] = "acquire" /\ lock_objs[rgot[t]].owner # 0
    \/ stpc[t] = "enter" /\ stats_lock # 0

\* C39: a thread holds at most one of _locks_lock, the locks of the stores
\* and stats_lock at a time; a thread that holds a lock waits for no lock,
\* so that in no state the threads wait for each other; and a thread at the
\* entry of a with block gets into it in the end.
C39_OneLockAtATime ==
    /\ [](\A t \in Threads :
             /\ Cardinality(LocksOfThread(t)) <= 1
             /\ LocksOfThread(t) # {} => ~WaitsForLock(t))
    /\ \A t \in Threads : WaitsForLock(t) ~> ~WaitsForLock(t)

\* one thread is inside the with block of the lock of a store while the
\* other one is inside the with block of stats_lock
C39_Witness ==
    \E t, u \in Threads :
        /\ t # u
        /\ stats_lock = t
        /\ rpc[u] = "using"
        /\ lock_objs[rgot[u]].owner = u

====
